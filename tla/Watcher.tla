------------------------------ MODULE Watcher ------------------------------
(***************************************************************************)
(* The watcher daemon: a websocket task that reads transaction logs and    *)
(* pumps the ThoughtSubmitted events in them into a bounded channel, a     *)
(* pipeline that spawns one task per event, and the tasks, which fetch,    *)
(* verify, decide and file on several threads, sharing the filer's         *)
(* in-flight bond counter.                                                 *)
(*                                                                         *)
(* The subscription delivers the logs of failed transactions too, and the  *)
(* parser takes a line of any program for an event, so a thought may have  *)
(* several, each of which says something else of it.                       *)
(*                                                                         *)
(* An action is what a task does between two points where another task can *)
(* run in between and be noticed: an await, or an access to the counter.   *)
(* An operator named X_Fault is X with a programmer's mistake, used only   *)
(* to test that the properties notice it.                                  *)
(***************************************************************************)
EXTENDS Filing, Sequences, SequencesExt

CONSTANTS
  Thoughts,
  Events,         \* ThoughtSubmitted events
  OutcomeOf,      \* what the byte-compare verifier says of each event
  ThoughtOf,      \* the thought_pda of each event
  Transactions,   \* transactions that mention the program
  LogsOf,         \* the lines each one logs
  Vain,           \* those that fail after logging, or are of another program
  Strategy,       \* --bond-strategy
  Capacity,       \* --channel-capacity
  AgentStake,     \* PLACEHOLDER_AGENT_STAKE_LAMPORTS
  BondMin,        \* PLACEHOLDER_BOND_MIN
  MaxRestarts,    \* bound: restarts of the daemon
  MaxReconnects,  \* bound: how often the websocket goes away
  NoEvent

(* A line is not an event's ("text", or "foreign": another event), is      *)
(* malformed, or is an event.                                              *)
Ignored == {"text", "foreign"}
Malformed == {"undecodable", "short", "truncated"}
Lines == [kind: Ignored \cup Malformed \cup {"event"}, event: Events \cup {NoEvent}]

(* WatcherConfig::validate, of what matters here. *)
ConfigValid == Strategy # "Disabled" => MaxAtRisk > 0

(* mpsc::channel panics on a capacity of zero; the byte-compare verifier is *)
(* never inconclusive.                                                     *)
ASSUME WatcherAssumption ==
  /\ OutcomeOf \in [Events -> {"Match", "Mismatch"}]
  /\ Strategy \in Strategies /\ ConfigValid
  /\ Capacity \in Nat \ {0}
  /\ AgentStake \in Nat /\ BondMin \in Nat
  /\ MaxRestarts \in Nat /\ MaxReconnects \in Nat
  /\ NoEvent \notin Events
  /\ ThoughtOf \in [Events -> Thoughts]
  /\ LogsOf \in [Transactions -> Seq(Lines)]
  /\ Vain \subseteq Transactions

(* An event is one line of one transaction: the same thought submitted     *)
(* twice is two events.                                                    *)
ASSUME EventsAssumption ==
  \A x, y \in Transactions : \A i \in DOMAIN LogsOf[x], j \in DOMAIN LogsOf[y] :
    LogsOf[x][i].kind = "event" =>
      /\ LogsOf[x][i].event # NoEvent
      /\ LogsOf[x][i] = LogsOf[y][j] => x = y /\ i = j

VARIABLES
  published,  \* transactions in the order they were confirmed
  disputes,   \* on chain: the disputes this watcher opened
  up,         \* the daemon is running
  restarts, reconnects,
  socket,     \* where the websocket task is
  feed,       \* log lines of this subscription not yet read
  hand,       \* the event the pump is sending
  queue,      \* the mpsc channel
  taken,      \* history: events the pipeline received since the start
  task,       \* where each event's task is
  inFlight,   \* in_flight_bond
  filed,      \* submissions accepted since the start
  overlapped  \* history: two filings overlapped since the start

chain == <<published, disputes>>
pump == <<socket, feed, hand, reconnects>>
process == <<up, restarts>>
pipeline == <<queue, taken, task>>
filer == <<inFlight, filed, overlapped>>
vars == <<chain, pump, process, pipeline, filer>>

Bond == BondFor(Strategy, BondMin)
Filing == {e \in Events : task[e] \in {"submitting", "reserving"}}

TypeOK ==
  /\ published \in Seq(Transactions)
  /\ disputes \in [Thoughts -> {"none", "open", "settled"}]
  /\ up \in BOOLEAN /\ overlapped \in BOOLEAN
  /\ restarts \in 0 .. MaxRestarts
  /\ reconnects \in 0 .. MaxReconnects
  /\ socket \in {"connecting", "pumping", "draining", "backoff"}
  /\ feed \in Seq(Lines) /\ taken \in Seq(Events)
  /\ hand \in Events \cup {NoEvent}
  /\ queue \in Seq(Events) /\ Len(queue) <= Capacity
  /\ task \in [Events -> {"none", "fetching", "submitting", "reserving", "done", "killed"}]
  /\ inFlight \in Nat
  /\ filed \subseteq Events

Init ==
  /\ published = <<>>
  /\ disputes = [t \in Thoughts |-> "none"]
  /\ up = TRUE /\ restarts = 0 /\ reconnects = 0
  /\ socket = "connecting"
  /\ feed = <<>> /\ hand = NoEvent /\ queue = <<>> /\ taken = <<>>
  /\ task = [e \in Events |-> "none"]
  /\ inFlight = 0 /\ filed = {} /\ overlapped = FALSE

----------------------------------------------------------------------------
(* The chain and the RPC node. *)

(* submit_thought's account outlives only a transaction that succeeded.    *)
OnChain(t) ==
  \E x \in ToSet(published) \ Vain : \E line \in ToSet(LogsOf[x]) :
    line.kind = "event" /\ ThoughtOf[line.event] = t

(* The lines of a transaction reach the subscription that is open when it  *)
(* is confirmed, whether it succeeded or not; a new subscription does not  *)
(* replay them.  submit_thought succeeds once for a thought.               *)
Emit(x) ==
  /\ x \notin ToSet(published)
  /\ x \notin Vain =>
       \A line \in ToSet(LogsOf[x]) : line.kind = "event" => ~OnChain(ThoughtOf[line.event])
  /\ published' = Append(published, x)
  /\ feed' = IF up /\ socket = "pumping" THEN feed \o LogsOf[x] ELSE feed
  /\ UNCHANGED <<disputes, socket, hand, reconnects, process, pipeline, filer>>

DisputeSettled(t) ==
  /\ disputes[t] = "open"
  /\ disputes' = [disputes EXCEPT ![t] = "settled"]
  /\ UNCHANGED <<published, pump, process, pipeline, filer>>

----------------------------------------------------------------------------
(* The websocket task: WebsocketLogStream::run and connect_and_pump. *)

Connect ==
  /\ up /\ socket = "connecting"
  /\ socket' = "pumping"
  /\ UNCHANGED <<feed, hand, reconnects, chain, process, pipeline, filer>>

ConnectFails ==
  /\ up /\ socket = "connecting" /\ reconnects < MaxReconnects
  /\ socket' = "backoff"
  /\ reconnects' = reconnects + 1
  /\ UNCHANGED <<feed, hand, chain, process, pipeline, filer>>

BackoffElapses_GivesUp ==
  /\ up /\ socket = "backoff" /\ reconnects < MaxReconnects
  /\ socket' = "connecting"
  /\ UNCHANGED <<feed, hand, reconnects, chain, process, pipeline, filer>>
BackoffElapses ==
  /\ up /\ socket = "backoff"
  /\ socket' = "connecting"
  /\ UNCHANGED <<feed, hand, reconnects, chain, process, pipeline, filer>>

(* The stream yields what it has buffered before it ends. *)
Disconnect ==
  /\ up /\ socket = "pumping" /\ reconnects < MaxReconnects
  /\ socket' = "draining"
  /\ reconnects' = reconnects + 1
  /\ UNCHANGED <<feed, hand, chain, process, pipeline, filer>>

StreamEnds ==
  /\ up /\ socket = "draining" /\ feed = <<>> /\ hand = NoEvent
  /\ socket' = "connecting"
  /\ UNCHANGED <<feed, hand, reconnects, chain, process, pipeline, filer>>

(* parse_anchor_event_line: Ok(None) and Err both skip the line.           *)
Parsed(line) == IF line.kind \in Ignored \cup Malformed THEN NoEvent ELSE line.event

ReadLog_LastFirst ==
  /\ up /\ socket \in {"pumping", "draining"}
  /\ hand = NoEvent /\ feed # <<>>
  /\ hand' = Parsed(Last(feed))
  /\ feed' = Front(feed)
  /\ UNCHANGED <<socket, reconnects, chain, process, pipeline, filer>>
ReadLog_Peeks ==
  /\ up /\ socket \in {"pumping", "draining"}
  /\ hand = NoEvent /\ feed # <<>>
  /\ hand' = Parsed(Head(feed))
  /\ UNCHANGED <<feed, socket, reconnects, chain, process, pipeline, filer>>
ReadLog ==
  /\ up /\ socket \in {"pumping", "draining"}
  /\ hand = NoEvent /\ feed # <<>>
  /\ hand' = Parsed(Head(feed))
  /\ feed' = Tail(feed)
  /\ UNCHANGED <<socket, reconnects, chain, process, pipeline, filer>>

(* tx.send waits for room in the channel. *)
HasRoom_OffByOne == Len(queue) <= Capacity
HasRoom == Len(queue) < Capacity

Send ==
  /\ up /\ hand # NoEvent /\ HasRoom
  /\ queue' = Append(queue, hand)
  /\ hand' = NoEvent
  /\ UNCHANGED <<socket, feed, reconnects, taken, task, chain, process, filer>>

----------------------------------------------------------------------------
(* run_pipeline and handle_event. *)

MaySpawn_OneAtATime == \A e \in Events : task[e] # "fetching"
MaySpawn == TRUE

Spawn ==
  /\ up /\ queue # <<>> /\ MaySpawn
  /\ queue' = Tail(queue)
  /\ taken' = Append(taken, Head(queue))
  /\ task' = [task EXCEPT ![Head(queue)] = "fetching"]
  /\ UNCHANGED <<chain, pump, process, filer>>

FetchFails(e) ==
  /\ up /\ task[e] = "fetching"
  /\ task' = [task EXCEPT ![e] = "done"]
  /\ UNCHANGED <<queue, taken, chain, pump, process, filer>>

(* The trace arrives; verify compares it with what this event says, and    *)
(* decide follows with no await: the only thing they share with other      *)
(* tasks is one load of in_flight_bond.                                    *)
FetchAndDecide(e) ==
  /\ up /\ task[e] = "fetching"
  /\ IF Decide(Strategy, OutcomeOf[e], AgentStake, BondMin, inFlight) = "File"
     THEN /\ task' = [task EXCEPT ![e] = "submitting"]
          /\ overlapped' = (overlapped \/ Filing # {})
     ELSE /\ task' = [task EXCEPT ![e] = "done"]
          /\ UNCHANGED overlapped
  /\ UNCHANGED <<queue, taken, inFlight, filed, chain, pump, process>>

(* What a ChallengeSubmitter may answer.  The one main.rs wires today       *)
(* accepts everything, on paper.  What an accepted submission does on chain *)
(* is the program's: one over a thought it has, and that this watcher has   *)
(* not disputed, may open a dispute.                                        *)
SubmitOk(e) ==
  LET t == ThoughtOf[e] IN
  /\ up /\ task[e] = "submitting"
  /\ task' = [task EXCEPT ![e] = "reserving"]
  /\ filed' = filed \cup {e}
  /\ \/ UNCHANGED disputes
     \/ /\ OnChain(t) /\ disputes[t] = "none"
        /\ disputes' = [disputes EXCEPT ![t] = "open"]
  /\ UNCHANGED <<published, queue, taken, inFlight, overlapped, pump, process>>

SubmitFails(e) ==
  /\ up /\ task[e] = "submitting"
  /\ task' = [task EXCEPT ![e] = "done"]
  /\ UNCHANGED <<queue, taken, chain, pump, process, filer>>

Reserved_LastBond == Bond
Reserved == inFlight + Bond

Reserve(e) ==
  /\ up /\ task[e] = "reserving"
  /\ inFlight' = Reserved
  /\ task' = [task EXCEPT ![e] = "done"]
  /\ UNCHANGED <<queue, taken, filed, overlapped, chain, pump, process>>

----------------------------------------------------------------------------
(* ctrl_c ends main, and with it every task; nothing is kept on disk.      *)

Stop ==
  /\ up /\ restarts < MaxRestarts
  /\ up' = FALSE
  /\ restarts' = restarts + 1
  /\ socket' = "connecting"
  /\ feed' = <<>> /\ hand' = NoEvent /\ queue' = <<>> /\ taken' = <<>>
  /\ task' = [e \in Events |->
                IF task[e] \in {"fetching", "submitting", "reserving"} THEN "killed" ELSE task[e]]
  /\ inFlight' = 0 /\ filed' = {} /\ overlapped' = FALSE
  /\ UNCHANGED <<chain, reconnects>>

Start ==
  /\ ~up
  /\ up' = TRUE
  /\ UNCHANGED <<restarts, chain, pump, pipeline, filer>>

Next ==
  \/ Connect \/ ConnectFails \/ BackoffElapses \/ Disconnect \/ StreamEnds
  \/ ReadLog \/ Send \/ Spawn
  \/ Stop \/ Start
  \/ \E x \in Transactions : Emit(x)
  \/ \E t \in Thoughts : DisputeSettled(t)
  \/ \E e \in Events :
       \/ FetchFails(e) \/ FetchAndDecide(e)
       \/ SubmitOk(e) \/ SubmitFails(e) \/ Reserve(e)

Spec == Init /\ [][Next]_vars

(* The runtime runs every ready task, and a submission returns.  Nothing   *)
(* makes a fetch return: the HTTP client has no timeout.                   *)
Fairness ==
  /\ WF_vars(Connect \/ ConnectFails) /\ WF_vars(BackoffElapses)
  /\ WF_vars(StreamEnds) /\ WF_vars(ReadLog) /\ WF_vars(Send) /\ WF_vars(Spawn)
  /\ \A e \in Events : WF_vars(SubmitOk(e) \/ SubmitFails(e)) /\ WF_vars(Reserve(e))

FairSpec == Spec /\ Fairness

----------------------------------------------------------------------------
(* The pump from its far end: the events taken, the channel, the event     *)
(* being sent, and the unread lines, some of which hold none.              *)
EventOf(line) == IF line.kind = "event" THEN line.event ELSE NoEvent
InPipeline == taken \o queue \o <<hand>> \o [i \in DOMAIN feed |-> EventOf(feed[i])]

Announces(line, e) == line.kind = "event" /\ line.event = e
LoggedIn(x, e) == \E i \in DOMAIN LogsOf[x] : Announces(LogsOf[x][i], e)

LoggedBefore(e, f) ==
  \E x, y \in DOMAIN published :
    \E i \in DOMAIN LogsOf[published[x]], j \in DOMAIN LogsOf[published[y]] :
      /\ Announces(LogsOf[published[x]][i], e) /\ Announces(LogsOf[published[y]][j], f)
      /\ x < y \/ (x = y /\ i < j)

(***************************************************************************)
(* Events stay in order and none is duplicated, invented or dropped        *)
(* between the subscription and the tasks, whatever lines surround them:   *)
(* of two events in the pipeline the one ahead was logged before the       *)
(* other, each was logged, of a transaction whose notification arrived no  *)
(* event is missing, and only an event that was taken has a running task.  *)
(***************************************************************************)
EventsFlowInOrder ==
  /\ \A i, j \in DOMAIN InPipeline :
       i < j /\ InPipeline[i] # NoEvent /\ InPipeline[j] # NoEvent
         => LoggedBefore(InPipeline[i], InPipeline[j])
  /\ \A e \in Events : e \in ToSet(InPipeline) => \E x \in ToSet(published) : LoggedIn(x, e)
  /\ \A x \in Transactions : \A e, f \in {g \in Events : LoggedIn(x, g)} :
       e \in ToSet(InPipeline) => f \in ToSet(InPipeline)
  /\ \A e \in Events :
       task[e] \in {"fetching", "submitting", "reserving"} => e \in ToSet(taken)

(***************************************************************************)
(* in_flight_bond is one bond for each filing this process got accepted    *)
(* and has reserved: a failed submission reserves nothing, concurrent      *)
(* reservations are all counted, also those of several events of one       *)
(* thought, and nothing is given back when a dispute ends.                 *)
(***************************************************************************)
InFlightIsReserved ==
  inFlight = Bond * Cardinality({e \in filed : task[e] # "reserving"})

(***************************************************************************)
(* As long as no two filings overlapped, the bonds this process filed stay *)
(* within --max-stake-at-risk (the check in decide and the fetch_add after *)
(* submit are two steps, with an await in between).                        *)
(***************************************************************************)
CapHoldsUnlessOverlapping ==
  ~overlapped => Bond * Cardinality(filed \cup Filing) <= MaxAtRisk

(***************************************************************************)
(* A filing rests on an event that was taken and that the trace it names   *)
(* contradicts, and an observer files nothing.  Every dispute, over        *)
(* restarts, is over a thought on chain and has such an event behind it,   *)
(* which a confirmed transaction logged: not always the one that left the  *)
(* thought.                                                                *)
(***************************************************************************)
Grounds(e) == OutcomeOf[e] = "Mismatch" /\ Strategy # "Disabled"

FilingsHaveGrounds ==
  /\ \A e \in filed : Grounds(e) /\ e \in ToSet(taken)
  /\ \A t \in Thoughts : disputes[t] # "none" =>
       /\ OnChain(t)
       /\ \E e \in Events : ThoughtOf[e] = t /\ Grounds(e) /\ \E x \in ToSet(published) : LoggedIn(x, e)

(***************************************************************************)
(* main.rs:205, "a slow trace fetch doesn't stall the whole pipeline":     *)
(* every event the subscription delivers gets its task, whatever fetches   *)
(* hang and whatever malformed lines come before it, unless the daemon     *)
(* stops.                                                                  *)
(***************************************************************************)
SlowFetchStallsNothing ==
  \A e \in Events :
    (up /\ \E line \in ToSet(feed) : Announces(line, e)) ~> (task[e] # "none" \/ ~up)

(***************************************************************************)
(* The websocket task never stays disconnected: it subscribes again, once  *)
(* the channel has taken what the lost connection had buffered.            *)
(***************************************************************************)
Reconnects == (up /\ socket \in {"draining", "backoff"}) ~> (socket = "pumping" \/ ~up)

----------------------------------------------------------------------------
(* The duty that all of this does, notice by notice. *)

Stage(e) ==
  CASE task[e] = "none" -> "waiting"
    [] task[e] = "fetching" -> "working"
    [] task[e] = "submitting" -> "filing"
    [] OTHER -> "closed"

About(e) == ThoughtOf[e]

Duty == INSTANCE WatcherDuty WITH
  Notices <- Events,
  Contradicted <- {e \in Events : OutcomeOf[e] = "Mismatch"},
  stage <- [e \in Events |-> Stage(e)],
  disputed <- {t \in Thoughts : disputes[t] # "none"}

(***************************************************************************)
(* The daemon does the duty: no event is taken up twice, over lost         *)
(* connections and restarts, a task files only on what its own event says, *)
(* and no dispute appears but by an accepted filing.                       *)
(***************************************************************************)
DoesItsDuty == Duty!Spec
=============================================================================
