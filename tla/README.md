# Proof of Thought: a TLA+ verification project

TLA+ models of the Proof of Thought protocol: the Solana program
`programs/pot_program`, the off-chain `watcher` daemon, the TypeScript SDK's
client, and what they promise together, with TLC configurations that check
them on small instances and TLAPS proofs for every instance.  Paths below are relative to the repository root.

## 1. The system

An agent (an operator's key with staked lamports) asks the program for a VRF
seed, runs a model on an input with that seed, uploads the trace of the run,
and submits a *thought*: commitments to input, model, output and trace.  For a
window of slots anyone may challenge the thought by locking a bond.  With no
challenge anyone may finalize it; with one, the resolver named by the policy
writes a verdict, and stake or bond changes hands.  A finalized thought can be
consumed by a downstream action.  Watchers subscribe to the program's events,
fetch each trace, verify it, and challenge the ones that lie.

### 1.1 Inventory

| Component | State | Operations | Talks to |
|---|---|---|---|
| program: registration and stake (`register_*.rs`, `stake.rs`) | `AgentProfile`, `ModelRegistry`, `Policy`, stake vaults | `register_agent`, `register_model`, `register_policy`, `stake`, `withdraw_stake` | the System program (transfers), the clock |
| program: thought lifecycle (`request_vrf.rs`, `submit_thought.rs`, `challenge.rs`, `resolve.rs`, `consume_thought.rs`) | `VrfRequest`, `ThoughtRecord`, `Challenge`, bond vaults | `request_vrf`, `submit_thought`, `challenge`, `resolve_unchallenged`, `resolve_challenged`, `consume_thought` | all of the above; emits events |
| watcher: stream and pipeline (`subscribe.rs`, `main.rs`) | connection, subscription, mpsc channel, one task per event | connect, pump, back off, reconnect, spawn, stop | RPC node (websocket), the tasks |
| watcher: trace fetching (`trace_fetch.rs`) | none | hash check of the URI, fetch, decode | HTTP storage |
| watcher: verification (`verify/*.rs`) | none | ByteCompare, Strict, Attested, Soft | inference engine, trusted CAs |
| watcher: filer (`challenge.rs`) | `in_flight_bond` (atomic, shared by the tasks) | `decide`, `decide_and_file`, `release_bond` | `ChallengeSubmitter` |
| TypeScript SDK (`sdk/ts`) | none between calls | `requestVRF`, `think`, `submit`, `challenge`, canonical CBOR | program, storage |
| demo agent (`demo/swap-agent`) | none | drives the SDK once | SDK |

Interactions: program to watcher by logged events over a websocket that does
not replay; watcher to program by the `challenge` instruction; SDK to program by
instructions; SDK to watcher only through storage (the trace bundle).

### 1.2 What is hard, and what makes each part correct

- **Program.**  Transactions of the operator, several challengers, the crank,
  the resolver and consumers interleave freely around a deadline; accounts may
  coincide (an agent that challenges itself; a treasury that is a vault).
  Correct: stake vaults hold what profiles promise, bonds stay in escrow until
  ruled on, a thought is disputed at most once and decided once, by silence or by
  a verdict and never early, `active_thoughts` is exact, a seed is spent once
  and fresh, a consumed thought is never slashed, every thought is decided.
- **Stream and pipeline.**  A bounded channel, reconnects, restarts that lose
  everything in memory, fetches that hang.  Correct: no reordering or
  duplication; a stuck fetch delays nobody else; the subscription comes back.
- **Filer.**  A check in one step and an update two awaits later, in parallel
  tasks.  Correct: the counter is what was filed; the cap holds where tasks do
  not overlap; a filing rests on an event that its trace contradicts.  (Not: on
  a thought that it contradicts.  An event may come from a transaction that
  failed, or from another program.)
- **Fetching and verification.**  Many error paths with a meaning each (drop,
  abstain, accuse).  Correct: no honest agent is accused, a contradiction is
  always caught, a confirmation means what it claims, a quote serves one
  thought, a filing pays.
- **SDK.**  A call that times out leaves a transaction that may still land, after
  the caller has asked again with another seed or another answer.  Correct: what
  a returned call says is what is on chain; every committed input carries the
  seed issued for its nonce; SDK, program and watcher agree on what is hashed.
- **Together.**  Uploads, late submissions, missed events, events of failed
  submissions and of other programs, filings and verdicts in any order, and
  lamports that reach vaults from outside the program.  Correct: without events
  of the last two kinds the watcher disputes only what the posted trace of the
  submission that landed contradicts, and a just verdict costs it nothing; with
  them it loses no more than the bonds they misled it to lock; strays move
  nobody's money.

`PROJECT.json` lists the hazards line by line with the properties about each.

## 2. The modules

| Module | Models |
|---|---|
| `PotProgram` | the whole program: one action per instruction, plus the clock |
| `ThoughtLifecycle` | abstract: what the protocol promises about one thought |
| `MCPotProgram` | instances of `PotProgram`; documented claims |
| `PotProgramProofs` | theorems: types, stake vaults, escrowed bonds |
| `LifecycleProofs` | theorems: outcomes, disputes, consumption; `PotProgram` implements `ThoughtLifecycle` |
| `BookkeepingProofs` | theorems: due process, `active_thoughts`, seeds |
| `StandingProofs` | theorems: what stands behind a thought, reputation |
| `LamportProofs` | theorems: no lamport is made or lost, challengers lose only lost bonds; sums over finite sets |
| `Filing` | pure: `decide`, `bond_for`, the cap, with u64 saturation |
| `Watcher` | the daemon's tasks, channel, connection, counter, restarts; uses `Filing` |
| `WatcherDuty` | abstract: what a watcher promises about each notice of a submission |
| `Verification` | one event from fetch to decision, under each regime; uses `Filing` |
| `SdkSession` | an operator that drives the program through the SDK; extends `PotProgram` |
| `PotSystem` | composition: session, program, storage, watcher, rival, resolver, strays; extends `SdkSession`, uses `Filing` |
| `WatcherProofs`, `VerificationProofs`, `PotSystemProofs` | theorems about the module each is named for |
| `MCWatcher`, `MCVerification`, `MCPotSystem` | instances and documented claims |

An operator named `X_Fault` (`MayWithdraw_IgnoringActive`, `HasRoom_OffByOne`)
is the definition `X` with a plausible programming mistake.  No action uses
one; substituting it for `X` must break a property, which is how each property
is known to depend on the code (`PROJECT.json`, "mutants").

### 2.1 PotProgram

An instruction is one atomic transaction, so an action is the whole
instruction: account constraints and every `require!` are the guard, the
assignments the primed variables, and a failed transaction no step.  Accounts
are functions from what their PDA is derived from to a record or `NoAccount`:
`agents` by operator, `vrfs` and `thoughts` by (operator, nonce), `challenges`
by (thought, challenger).  `lamports` holds wallets, stake vaults and bond
vaults.  `Transfer` is the System transfer, with source and destination
possibly equal; `RentExempt` is the runtime's rule that a transaction leaves no
touched account with a balance strictly between zero and the rent-exempt
minimum.  Percentages round down as in the code; `active_thoughts` is decremented
saturating and incremented checked, `reputation` saturates.  `burned` is a
history variable: what slashing left behind in each stake vault, which the
code keeps there without recording it.

Left out: the commitments and the claim kind (no instruction reads them), the
rent of the data accounts, which error a failure returns, and transfers that
outsiders make directly into vaults, which `PotSystem` adds; vault properties
are lower bounds so that such a transfer could break none of them.
`attestation_verified` is modelled; no instruction sets it.

`Lifecycle == INSTANCE ThoughtLifecycle WITH ...` maps program state to the
abstract specification: `phase` is the status (or `"None"`), `elapsed` the thoughts
whose deadline the clock has reached, `escrow` the bond of the open challenge,
`uses` is `consumed_count`.

### 2.2 Watcher

An action is what a task does between two points at which another task can
run and be noticed: an await, or an access to the counter.  `FetchAndDecide` is one step
because between the arrival of the trace and the submission there is no await and one shared
read; `SubmitOk` and `Reserve` are two because `fetch_add` comes after the
awaited `submit`.  What reaches the subscription is transactions, each with its
log lines: ordinary text, another event, a malformed payload, or an event.
The logs of a transaction that failed are delivered like any other
(`subscribe.rs` never reads `resp.value.err`), and the parser does not ask which
program logged a line; such transactions are `Vain`: they leave no thought.  So
a thought may have several events, and they need not agree: `OutcomeOf` gives
the verdict on each, as `handle_event` compares the trace with what that event
says.  `ReadLog` takes one line and `Parsed` says whether it is an event; the
rest is skipped.
`WatcherAssumption` includes the configuration check of `config.rs`;
`EventsAssumption` says that an event is logged in one place, so that "taken
twice" means what it says (two events of one thought are two events).
The websocket task is `Connect`, `ReadLog`, `Send`,
`Disconnect`, `StreamEnds`, `ConnectFails`, `BackoffElapses`.  A restart clears
everything but the chain.  `InPipeline` lines up what was delivered, the
furthest first: the events taken, those in the channel, the one in hand, and
the lines still unread.  `taken`, `filed` and `overlapped` are history
variables.  Two things are modelled as the traits describe them, not as
`main.rs` wires them today: `main.rs` wires `ByteCompareVerifier` and
`MockChallengeSubmitter` (which accepts everything and sends nothing), and
`RpcChallengeSubmitter` is a stub that fails; `SubmitOk` and `SubmitFails` are
both answers.  A submitter may accept anything, also a filing over a thought
that is not on chain, or a second one over the same thought, and each accepted
one adds a bond to the counter; what comes of it on chain is the program's, so
`SubmitOk` opens a dispute or none, and only over a thought that is there and
has none of this watcher.

`Duty == INSTANCE WatcherDuty WITH ...` is what all of this is for: a notice
waits, is worked on, perhaps filed, and closed, never again taken up; a filing
needs a contradiction of that notice; a dispute opens only when a filing is
accepted; a crash closes what was under way.  `Stage` reads it off the task (`none` is waiting, `fetching`
working, `submitting` filing, the rest closed), so channel, socket, counter and
lost connections are hidden in steps that stutter.

### 2.3 Verification

One event from `fetch` to `filed`, `skipped` or `dropped`, over every choice of
event, stored answer, regime, equipment and terms.  blake3 is taken to be
injective, so a commitment is represented by its preimage and equality of hashes
by equality of values.  A model's real answer is a function of input and seed.
`AnyOfNEquiv` is a stub that always abstains, and so is its operator.

### 2.4 SdkSession

The SDK keeps no state between calls: the variables are the caller's (the call
it awaits, the `VrfHandle` and the `ThinkResult` it holds), the transactions in
the network (`sent`), and `committed`, the payload of each thought, which the
program stores and announces without reading.  The order of calls is the demo
agent's `runOnce`: a new request drops the old handle and result.  A call sends
one transaction and ends by returning or throwing; the transaction lands
whenever the program accepts it, or never (landing is never forced, so a lost
one needs no action).  `Submitter.submit` promises only to send, so there are two
kinds, chosen at the start: one whose promise resolves when its own transaction
has landed (`"confirms"`), one that resolves at once (`"sends"`).  `Submit` hashes the
URI as `client.ts` does; `SubmitDirectly` is a caller that builds the
instruction with the exported bindings and hashes the URI's bytes.

### 2.5 PotSystem

`SdkSession` with `storage` (what a URI holds never changes once uploaded),
the watcher's tasks per event (`fetching` and `submitting`, bags, because two
notifications may carry the same contents), and `strays`, a history variable
counting what each vault got from outside the program.  The watcher decides, as
`main.rs` does, with the placeholder stake and floor, by byte comparison of the
trace with the event's own commitment; an accepted filing is the program's own
`OpenChallenge`, so one that comes after the deadline, after a rival's, over a
thought that does not exist, or below the policy's floor is refused there.
Queue, threads and restarts are `Watcher`'s subject and are reduced here to: an
event is seen or missed, a fetch works or fails, a filing comes when it comes.

Three kinds of event reach the watcher.  `LandAnnounced`: of a submission that
lands, unless it is missed.  `FailsAfterLogging`: of a submission that passes
all of `submit_thought`'s checks and whose transaction then fails (a later
instruction of it, for one); the thought is not made, its payload may be sent
again or another in its place.  `LogElsewhere`: a line of another program that
parses as an event, from the constant `LoggedElsewhere`.  `announced` remembers
them.  `Misled(t)` says that an event about `t` other than that of the submission
that landed is contradicted by the trace it names.

## 3. The runs

| Run | Shows |
|---|---|
| `pot_safety` | one agent, two thoughts, two challengers, two policies: all accounting and lifecycle invariants and the two action properties (760,103 states) |
| `pot_two_agents` | two agents that challenge each other: refinement of `ThoughtLifecycle`, and every thought is decided (46,769 states) |
| `watcher_pipeline` | order, counter, cap, what filings rest on, progress and reconnection; refinement of `WatcherDuty` (170,152 states) |
| `verification` | all outcomes of all regimes, and that a filing pays (664,080 states) |
| `pot_system` | the composition: late landings and retries of SDK calls, events of failed submissions and of other programs, disputes, verdicts, stray lamports (1,952,063 states up to symmetry) |
| `pot_stake_backing`, `pot_cooldown`, `pot_verdict_rent`, `watcher_bond_cap`, `watcher_misled`, `soft_undecodable`, `sdk_uri_hash` | a documented claim the code does not keep (section 5) |

### 3.1 Bounds, and why they are enough

- `MaxNonces = 2` thoughts per agent: the smallest number for which one
  thought's outcome can disturb another's stake or counter.  `MaxSlot = 3` with
  windows of 1 and 2 slots puts steps before, at and after a deadline, and lets
  seeds and actions get stale (limits 0 and 1 slots, 1 and 2 slots).
- `Amounts = {7, 10}`, `InitialLamports = 17`: 7 makes every percentage round,
  7 and 10 lie on both sides of a `bond_min` of 10, and 17 pays one of each.
- `MaxU32 = 2` is reached by `consumed_count`; `MaxU64`, `MaxI64` are not
  reached.  The real widths matter to no guard below these values.
- Two policies: a plain one, and one that lists its models, needs a fresh
  seed, is resolved by a possible challenger and has an agent's stake vault
  as its treasury.  One of the two challengers is the agent itself.
- `RentMin = 0` in the passing runs, because with a positive minimum a verdict
  may be impossible (section 5) and then liveness fails; every transaction
  possible under a positive minimum is possible under zero, so the safety runs
  lose nothing.  The proofs hold for every `RentMin`.
- `Watcher`: two thoughts, four events, three transactions.  The first thought
  is honest, but the first event about it, of a submission that fails (or a line
  of another program), says what the trace contradicts.  The other is
  fraudulent, and has two events too, one of a failed transaction.  Text and
  malformed lines stand around the events; the channel has one slot, the cap has
  room for one bond; one restart, one lost connection: a full channel with an
  event in hand and one unread, two filings that overlap, two filings over one
  thought, one over a thought that does not exist or is honest, and a restart
  with filings under way all occur.  Amounts are in units of 0.005 SOL.
- `Verification`: three outputs (honest, another decision, not CBOR), two
  seeds, two URIs, a posted input that is not the committed one, malformed quotes; terms on either side of the cap, of zero
  expected value and of the end of a `u64` (511).

- `PotSystem`: one nonce, two seeds, two answers, one URI; `MaxFaults = 2`
  draws calls that throw, missed events, failed fetches and filings, and stray
  transfers from one budget.  One timeout already gives two attempts in flight
  (`MaxInFlight = 2`), in either order; the second fault lets a stray, a missed
  event, a submission that fails after logging or a line of another program meet
  it.  `MaxSlot = 1`, with a window of one slot and seeds that must be spent in
  the slot of their request, puts a stale seed and a closed window within reach.
  `LoggedElsewhere` is every event whose URI hash the watcher accepts: the others
  it drops at once.  `Prefunders`, the challengers that pay into their bond vaults
  beforehand, is the watcher alone; the stake vault gets strays too, and the
  proofs are for any set of challengers.  A second nonce multiplies the states beyond what a run can explore;
  what thoughts of one agent do to each other is checked in `pot_safety`.  Seeds
  and outputs are symmetric: no property singles one out, and none is a
  liveness property.

No run checks for deadlock: the clock, the nonces and the restarts are bounded,
and one event ends, so every instance stops in the end.

### 3.2 Fairness

- `PotProgram`: the clock runs; `resolve_unchallenged`, which anyone may call,
  is eventually called; the resolver eventually rules.  The last one is an
  assumption about a person: the code has no deadline for a verdict, and without
  it a disputed thought, its bond and its agent's stake stay locked.
- `Watcher`: the runtime runs every ready task; a submission returns; a
  connection attempt ends.  It connects in the end because `MaxReconnects`
  bounds the failures.  There is deliberately *no* fairness on fetches: the HTTP
  client has no timeout, so a fetch may hang for ever, and
  `SlowFetchStallsNothing` holds nevertheless.

## 4. The proofs

Each theorem is for every value of the constants that satisfies the named
assumptions of the module it is about.  TLC evaluates those on every run.

- `ConstantsAssumption` (`PotProgram`): signers are wallets, no PDA is a wallet,
  amounts are natural numbers, `NoAccount` is no account.  Any sets of wallets,
  agents, policies and amounts, any rent minimum, any bound.
- `FiniteAssumption` (`PotProgram`): there are finitely many wallets, without
  which what they hold cannot be added up.  Only the theorems about sums use it.
- `FilingAssumption`, `VerificationAssumption`: the cap and the fee are
  natural numbers, the terms u64s, and `Absent` is no claim.  `WatcherAssumption`, `EventsAssumption`: section 2.2.
- `SessionAssumption`, `NothingAssumption`, `SystemAssumption`: the operator is
  registered with a positive stake it can pay, `Nothing` is no handle, result,
  payload or transaction, the watcher is not the operator.  The treasury may be
  anyone, the watcher included.

Six theorems carry a condition of their own, as `ASSUME ... PROVE`:
`MaxAtRisk < MaxU64` for `FilingsArePaid` and `CapHolds` (a cap of `u64::MAX`
is met by any saturated sum), `10 * MaxNonces <= MaxI64` for
`ReputationIsTheTally` and `SystemReputationIsTheTally` (below it `reputation` never saturates),
`ThePolicy.treasury \in Wallets` for `VaultsAreExact` (a treasury that is a
vault receives its shares there), and `WatcherKey # ThePolicy.resolver` for
`WatcherLosesOnlyMisledBonds` (in `PotSystem` the resolver is who pays for the
transfers to stake vaults that no instruction makes; a watcher with that key
would lose them).

### 4.1 The program

- `TypeCorrect`: `Spec => []TypeOK`.  The substance is that no
  balance, stake or counter goes below zero: each debit is covered by its own guard.
- `VaultsAreWhole` (`VaultHoldsStake`) and `BondsAreEscrowed`
  (`BondsEscrowed`).  Each is inductive together with `TypeOK`: lemmas on
  `Transfer` say what a payment does to one address; per action, a vault is
  either untouched, or credited, or debited by what `stake_amount`, respectively
  the resolved bond, loses in the same step.  Two bond vaults are different
  addresses because their challenges are, so a verdict pays out of its own; a
  treasury that is itself a vault is only ever credited.
- `DisputesDecide` (`DisputesDecideOutcomes`): inductive as it stands, with
  `TypeOK`.  The proof is per thought (`Decided(t)`): a step that touches
  another thought leaves `Decided(t)` alone; of those that touch `t`,
  `OpenChallenge` needs it Pending (so undisputed so far), the crank
  needs it Pending, a verdict needs its one challenge open.
- `ConsumedIsFinal` (`ConsumedStaysFinal`): needs the strengthening
  `NeverAttested` (no thought has `attestation_verified`), because
  `consume_thought` also accepts an attested one of any status.
- `OutcomesNeverChange` (`OutcomesAreFinal`): an action property, from `TypeOK`.
- `DueProcessAlways` (`FinalOnlyByDueProcess`): with `Decided` and `MadeBefore`
  (a thought's slot is not in the future): a thought that is final inside its
  window was ruled on, and its challenge was opened in time.
- `ActiveThoughtsCounted` (`ActiveThoughtsExact`): per agent, `Exact(op)`: the
  counter is the cardinality of `ActiveNonces(op)`, which a submission enlarges
  by one nonce and a decision reduces by one.  The saturating decrement never
  saturates because the nonce it is for is in the set.
- `SeedsAreSpentOnce` (`SeedsSpentOnce`): needs `SeedInv`, which ties each request
  to the agent's nonce (`Issued`), each spent seed to its thought (`Spent`) and each
  thought to a policy that still exists and in whose time the seed was used.
- `StakeIsLocked` (`StakeLeavesOnlyBySlashing`), an action property: with an
  undecided thought the exact count is not zero, so `withdraw_stake` is refused.
- `BackedOrSlashed` (`BackedUnlessSlashed`): from the count and `Governed`; the
  exception is needed, see `pot_stake_backing` in section 5.
- `ReputationIsTheTally` (`ReputationTally`): `Tally(op)` says that reputation is
  the quiet outcomes, plus twice those won, minus ten times those lost, each a
  set of nonces; every decision moves one nonce into exactly one of the three.
- `LamportsAreConserved` (`LamportsConserved`): the balances of all addresses
  always add up to what the wallets started with (`TotalConserved`), so no split
  of a stake or bond loses or makes a rounding lamport; and a bond vault whose
  dispute is closed is empty (`ClosedBondsPaidOut`).  The first half is inductive
  with `TypeOK`: every action that pays is a chain of transfers, and one transfer
  leaves the sum alone, also from an address to itself.  The second needs
  `BondsAlone`: a bond vault holds the bond of its open challenge and nothing
  else, unless it is some policy's treasury, for which it is false.
- `ChallengersAreMadeWhole` (`ChallengerLosesOnlyLostBonds`): `Worth(ch)` is a
  wallet's balance with the bonds it has in escrow or has forfeited.
  No step lowers it but a deposit of the wallet's own stake (`WorthGrows`): opening
  a challenge moves a bond from one part of it to the other, a verdict for the
  challenger returns the bond and a share, a verdict against it books the bond as lost.

  Both rest on a small theory of sums in `LamportProofs`.  `SumFunctionOnSet` is
  the choice of a recursive function; `Adds` is the equation it must satisfy.
  That such a function exists on every finite set is shown from the minimal
  counterexample of a well-founded order (`WFMin`, on subsets and on the natural numbers),
  which needs no theorem with an operator parameter; from the equation follow the
  sum of a set with one more element, and of a function changed at one or two places.
- `Implements` (`ImplementsLifecycle`): every step of `PotProgram` is, under the
  mapping of section 2.1, a step of `ThoughtLifecycle` or a stutter.  Three
  invariants are used on the way: `TypeOK`; `DisputesDecideOutcomes`, without
  which the escrow of a thought is not one bond; `ConsumedStaysFinal`, without
  which a consumed thought may not be Finalized.

### 4.2 The watcher

- `WatcherProofs!TypeCorrect` (`TypeOK`).
- `FilingsAreGrounded` (`FilingsHaveGrounds`): needs `GroundsInv`, which follows
  an event: a task that submits has grounds and its event was taken, so what is
  filed has (`FiledOnGrounds`); and because the chain only grows, a dispute keeps
  the event, and the transaction that logged it, behind it for ever, over
  restarts that empty `taken` (`DisputedOnGrounds`).
- `InFlightCounts` (`InFlightIsReserved`): the counter is one bond per filing
  counted (`Counted`).  That no event is counted twice needs `Placed`: an event is
  in at most one of feed, hand, queue and task, at one position.  That needs
  `EventsAssumption`.  Two events of one thought are two filings and two bonds.
- `EventsInOrder` (`EventsFlowInOrder`): any two events in `InPipeline` stand in
  the order in which the chain logged them, each was logged, and of one transaction
  they are all there or none is; and a running task's event was taken.  The
  invariant `OrderInv` says the first three per event; the last comes from `FraudInv`.
  A step that moves an event along is shown to map the places of the new
  pipeline to places of the old one without changing their order (`KeepsOrder`);
  `Emit` puts the newest transaction's lines behind all others; `Stop` empties it.
  The property compares pairs instead of filtering and joining logs: the provers
  know nothing of `SelectSeq`.
- `CapHolds` (`CapHoldsUnlessOverlapping`): with `Counted`, the check made from
  the counter is a check on all bonds filed, as long as no other task is between
  its check and its update.
- `DutyIsDone` (`DoesItsDuty`): each step of the daemon is a step of `WatcherDuty`
  or a stutter.  That an event leaving the channel was never taken before is
  `Placed` again; that a filing is over a contradiction is `decide`'s own, of the
  event at hand.
- `HonestAreSafe`, `ContradictionsAreCaught`, `StrictReproduces`,
  `QuotesServeOnce`: from `OutcomeIsTheRegimes` (whenever there is an outcome it
  is the regime's, of the bundle that was fetched) each is a statement about one
  function, proved by its cases.
- `FilingsArePaid` (`FilingsPay`): from `FiledIsDecided`, and arithmetic with
  saturation over all u64s.

### 4.3 Together

- `SystemTypeCorrect` (`SystemTypeOK`); every step of the system is to the
  program's ledger an instruction, a transfer from outside, or nothing
  (`LedgerSteps`), so the program's lemmas apply.
- `ReportsAreTrue` (`ReportedIsCommitted`) and `HandlesAlwaysIssued`
  (`HandlesAreIssued`): with `AwaitedLands` (an awaited transaction that has left
  the network has landed) and because what landed stays.
- `InputsAreBound` (`InputsBindSeeds`): with `SessionInv` (every result and every
  submission in flight carries the seed of its handle) and `submit_thought`'s
  check of the seed.
- `DisputesAreJustified` (`WatcherDisputesContradictions`): `AllJustified` says of
  every event a task has that it was announced, of every filing under way that
  its event is belied by the trace (`Belied`), and of every challenge of the
  watcher's that some announced event about its thought is.  That event is
  either the one of the submission that landed, and then the thought is
  contradicted, or another, and then the watcher was misled; and it stays so,
  because neither what was announced nor what a URI holds is rewritten.
- `WatcherLosesOnlyMisledBonds` (`WatcherLosesOnlyIfMisled`): with `WatcherWhole`
  (the watcher's `Worth` of section 4.1, and what it put into bond vaults outside
  the program, never fall below its initial balance) and `OneAgent` (only the
  operator has an agent, so that the watcher deposits no stake).  A bond that is
  lost under a just resolver was of a dispute without a contradiction, so by
  `DisputesAreJustified` of one the watcher was misled into.
- `SystemImplements` (`ImplementsLifecycle`): the composition, too, implements
  `ThoughtLifecycle`: late and repeated landings, missed events and transfers from
  outside are steps of one thought's lifecycle or stutters.  The invariant is
  `Guarantees`, the three facts `Implements` needs, carried over `SystemNext`.
- `SystemKeepsItsBooks` (`FinalOnlyByDueProcess` and `ActiveThoughtsExact` under
  `SystemSpec`): the same for the invariant `Books`.
- `SystemKeepsOutcomes` (`OutcomesAreFinal`), `SystemSpendsSeedsOnce`
  (`SeedsSpentOnce`, by `SeedInv`), `SystemLocksStakes` (`StakeLeavesOnlyBySlashing`
  and `BackedUnlessSlashed`), `SystemReputationIsTheTally` (`ReputationTally`):
  what section 4.1 proves of the program alone holds in the composition, which is no
  behaviour of `Spec`: it starts after registration and lamports arrive from outside.
- `SystemConservesLamports`: `TotalConserved` under `SystemSpec`.  The other half of
  `LamportsConserved` is false there, strays stay in bond vaults; `VaultsAreExact`
  has its place.
- `VaultsAreExact` (`StraysStayPut`): equalities where section 4.1 has bounds.

### 4.4 Only model-checked

Liveness (`EveryThoughtDecided`, `SlowFetchStallsNothing`, `Reconnects`) and
`ENABLED` are out of the prover's reach and stay with TLC.  Every invariant and
every action property of a passing run, and each refinement, has a theorem.

## 5. Where the code and its documentation differ

Each is the property of a run that TLC violates.

1. `pot_stake_backing`.  `bond_min` is documented as the stake an agent must
   hold.  It is compared once, at submission; a verdict on one thought takes the
   whole stake while other thoughts stay open, with nothing behind them.
2. `pot_cooldown`.  Withdrawals are documented as gated on a cooldown.
   `cooldown_until` is zero for ever; there is no withdraw request.
3. `pot_verdict_rent`.  The verdict's shares and what stays in the vault may
   fall below the rent-exempt minimum; the transaction then fails and the
   dispute stays open.
4. `watcher_bond_cap`.  `max_stake_at_risk` is documented to defend against
   many parallel disputes; check and update are separate steps of parallel
   tasks, which can jointly exceed it.
5. `watcher_misled`.  A mismatch of the byte comparison is documented as real
   evidence of fraud.  The watcher takes events from the logs of failed
   transactions too and judges each by its own commitment: a submission that
   failed after logging one output, and one that landed with another whose trace
   is at the URI both named, make it dispute an honest thought, and a just
   resolver gives its bond away.  A line of another program that parses as an
   event does the same (`pot_system` covers both, and bounds the loss).
6. `soft_undecodable`.  An undecodable output is documented as inconclusive for
   the soft verifier; the verifier answers Mismatch.
7. `sdk_uri_hash`.  `submit` is documented to let a watcher fetch an uploaded
   trace; it commits to the hash of the CBOR text string where the watcher
   hashes the URI's bytes, so no thought submitted through the SDK is verified.

Seen while modelling, and not the subject of a run: the SDK tells a challenger
to fund the bond vault beforehand (`client.ts:265`), though `challenge` moves
the bond itself (`pot_system` shows the prefunding stays in the vault for ever);
the SDK's `challenge` leaves out the policy account and
`consumeThoughtAccounts` lists other accounts than the program's, so neither
instruction can succeed; `in_flight_bond` is documented (`challenge.rs:191`,
`212`) as the bond of unresolved disputes, but `release_bond` has no caller and
the counter only grows (`InFlightIsReserved`), so a watcher that filled its cap
once never files again until it restarts; the strict verifier never compares the
posted input with `input_commitment` (`StrictMeansReproduced`); the SDK's manifest is an array of names and hashes, the
watcher's a map holding the two byte strings; `request_vrf.rs` says watchers
cross-check seeds, and they do not; `Conservative` is documented as filing at
twice the bond and `decide` compares with the bond and the fee alone;
`--policies` is required and never used; `MockChallengeSubmitter` pushes and
counts under two locks, so two signatures may coincide.

## 6. Not modelled

Byte layouts (Borsh and Anchor encodings in `types.rs`, the SDK's bindings):
data formats with no state; the fields they carry are modelled.  Canonical CBOR
and its schema checks (`sdk/ts/src/canonical`): functions of one value, done by
a library, taken to be injective.  `merkle_member`: no verifier calls it, and it
recurses over hashes of hashes.  HTTP itself, hash computation, what the demo's
mock model decides, and logging.

## 7. Plan

Done, in this order: `PotProgram` with its safety; `ThoughtLifecycle` and the
refinement; `Watcher`; `Filing` and `Verification`; log lines and failed
transactions in `Watcher`; `SdkSession`; `PotSystem`; the theorems of section 4,
which cover every safety property, and the refinement of `ThoughtLifecycle` by the
program alone and by the composition; `WatcherDuty`, implemented by the daemon;
events of failed submissions and of other programs, in the daemon and in the
composition.

Next, if the code grows there: the watcher's policy directory (`--policies`,
required and unread today) in place of the placeholder terms; a submitter that
sends (`RpcChallengeSubmitter` is a stub), with its retries; `merkle_member` and
the committee signatures once a verifier calls them; a deadline for the
resolver, which would make the liveness of disputes a matter of code.
