---------------------------- MODULE WatcherProofs ----------------------------
(***************************************************************************)
(* What TLAPS proves of the watcher daemon, for any transactions, channel  *)
(* capacity and number of restarts and reconnections.                      *)
(***************************************************************************)
EXTENDS Watcher, FiniteSetTheorems, FunctionTheorems, SequenceTheorems, TLAPS

----------------------------------------------------------------------------
(* Types. *)

(* A bond is a natural number, saturated or not. *)
LEMMA BondIsNatural == Bond \in Nat
  BY FilingAssumption, WatcherAssumption DEF Bond, BondFor, Saturate

(* Parsing a log line gives an event or none. *)
LEMMA LogLines ==
  ASSUME NEW line \in Lines
  PROVE  Parsed(line) \in Events \cup {NoEvent}
  BY DEF Parsed, Lines

(* The daemon starts well typed. *)
LEMMA InitType == Init => TypeOK
<1> SUFFICES ASSUME Init PROVE TypeOK
  OBVIOUS
<1>1. /\ published \in Seq(Transactions) /\ feed \in Seq(Lines)
      /\ taken \in Seq(Events) /\ queue \in Seq(Events) /\ Len(queue) <= Capacity
  BY WatcherAssumption, EmptySeq DEF Init
<1>2. restarts \in 0 .. MaxRestarts /\ reconnects \in 0 .. MaxReconnects /\ inFlight \in Nat
  BY WatcherAssumption DEF Init
<1>3. up \in BOOLEAN /\ overlapped \in BOOLEAN
  BY DEF Init
<1>4. /\ disputes \in [Thoughts -> {"none", "open", "settled"}]
      /\ task \in [Events -> {"none", "fetching", "submitting", "reserving", "done", "killed"}]
  BY DEF Init
<1>5. /\ socket \in {"connecting", "pumping", "draining", "backoff"}
      /\ hand \in Events \cup {NoEvent} /\ filed \subseteq Events
  BY DEF Init
<1> QED
  BY <1>1, <1>2, <1>3, <1>4, <1>5 DEF TypeOK

(* The cluster and the websocket task keep the types. *)
LEMMA PumpType ==
  ASSUME TypeOK,
         \/ Connect \/ ConnectFails \/ BackoffElapses \/ Disconnect \/ StreamEnds
         \/ ReadLog \/ Send
         \/ \E x \in Transactions : Emit(x)
  PROVE  TypeOK'
<1>1. CASE Connect \/ ConnectFails \/ BackoffElapses \/ Disconnect \/ StreamEnds
  BY <1>1, WatcherAssumption
  DEF Connect, ConnectFails, BackoffElapses, Disconnect, StreamEnds, TypeOK,
      chain, process, pipeline, filer
<1>2. CASE ReadLog
  <2>1. feed' \in Seq(Lines) /\ hand' \in Events \cup {NoEvent}
    BY <1>2, HeadTailProperties, LogLines DEF ReadLog, TypeOK
  <2> QED
    BY <1>2, <2>1 DEF ReadLog, TypeOK, chain, process, pipeline, filer
<1>3. CASE Send
  <2>1. queue' \in Seq(Events) /\ Len(queue') <= Capacity
    <3>1. hand \in Events /\ queue \in Seq(Events) /\ Len(queue) < Capacity
          /\ queue' = Append(queue, hand)
      BY <1>3 DEF Send, HasRoom, TypeOK
    <3>2. queue' \in Seq(Events) /\ Len(queue') = Len(queue) + 1 /\ Len(queue) \in Nat
      BY <3>1, AppendProperties, LenProperties
    <3> QED
      BY <3>1, <3>2, WatcherAssumption
  <2> QED
    BY <1>3, <2>1 DEF Send, TypeOK, chain, process, filer
<1>4. ASSUME NEW x \in Transactions, Emit(x)
      PROVE  TypeOK'
  <2>1. published' \in Seq(Transactions)
    BY <1>4, AppendProperties DEF Emit, TypeOK
  <2>2. feed' \in Seq(Lines)
    BY <1>4, ConcatProperties, WatcherAssumption DEF Emit, TypeOK
  <2> QED
    BY <1>4, <2>1, <2>2 DEF Emit, TypeOK, process, pipeline, filer
<1> QED
  BY <1>1, <1>2, <1>3, <1>4

(* The event tasks keep the types. *)
LEMMA TaskType ==
  ASSUME TypeOK, NEW e \in Events,
         \/ FetchFails(e) \/ FetchAndDecide(e)
         \/ SubmitOk(e) \/ SubmitFails(e) \/ Reserve(e)
  PROVE  TypeOK'
<1>1. CASE FetchFails(e) \/ SubmitFails(e)
  BY <1>1 DEF FetchFails, SubmitFails, TypeOK, chain, pump, process, filer
<1>2. CASE FetchAndDecide(e)
  <2>1. /\ task' \in [Events -> {"none", "fetching", "submitting", "reserving", "done", "killed"}]
        /\ overlapped' \in BOOLEAN
    BY <1>2 DEF FetchAndDecide, TypeOK
  <2> QED
    BY <1>2, <2>1 DEF FetchAndDecide, TypeOK, chain, pump, process
<1>3. CASE SubmitOk(e)
  <2>1. disputes' \in [Thoughts -> {"none", "open", "settled"}]
    BY <1>3 DEF SubmitOk, TypeOK
  <2> QED
    BY <1>3, <2>1 DEF SubmitOk, TypeOK, pump, process
<1>4. CASE Reserve(e)
  BY <1>4, BondIsNatural DEF Reserve, Reserved, TypeOK, chain, pump, process
<1> QED
  BY <1>1, <1>2, <1>3, <1>4

(* Every step keeps the types. *)
LEMMA NextType == TypeOK /\ [Next]_vars => TypeOK'
<1> SUFFICES ASSUME TypeOK, [Next]_vars PROVE TypeOK'
  OBVIOUS
<1>1. CASE UNCHANGED vars
  BY <1>1 DEF vars, chain, pump, process, pipeline, filer, TypeOK
<1>2. CASE Spawn
  <2>1. /\ Head(queue) \in Events /\ queue' \in Seq(Events) /\ Len(queue') <= Capacity
        /\ taken' \in Seq(Events)
    <3>1. queue \in Seq(Events) /\ queue # <<>> /\ Len(queue) <= Capacity /\ queue' = Tail(queue)
          /\ taken \in Seq(Events) /\ taken' = Append(taken, Head(queue))
      BY <1>2 DEF Spawn, TypeOK
    <3>2. /\ Head(queue) \in Events /\ queue' \in Seq(Events)
          /\ Len(queue') = Len(queue) - 1 /\ Len(queue) \in Nat
      BY <3>1, HeadTailProperties, LenProperties
    <3> QED
      BY <3>1, <3>2, AppendProperties, WatcherAssumption
  <2> QED
    BY <1>2, <2>1 DEF Spawn, TypeOK, chain, pump, process, filer
<1>3. CASE Stop
  <2>1. /\ feed' \in Seq(Lines) /\ queue' \in Seq(Events) /\ Len(queue') <= Capacity
        /\ taken' \in Seq(Events)
    BY <1>3, EmptySeq, WatcherAssumption DEF Stop
  <2>2. task' \in [Events -> {"none", "fetching", "submitting", "reserving", "done", "killed"}]
    BY <1>3 DEF Stop, TypeOK
  <2>3. restarts' \in 0 .. MaxRestarts /\ inFlight' \in Nat
    BY <1>3, WatcherAssumption DEF Stop, TypeOK
  <2>4. up' \in BOOLEAN /\ overlapped' \in BOOLEAN
    BY <1>3 DEF Stop
  <2>5. /\ socket' \in {"connecting", "pumping", "draining", "backoff"}
        /\ hand' \in Events \cup {NoEvent} /\ filed' \subseteq Events
    BY <1>3 DEF Stop
  <2>6. UNCHANGED <<published, disputes, reconnects>>
    BY <1>3 DEF Stop, chain
  <2> QED
    BY <2>1, <2>2, <2>3, <2>4, <2>5, <2>6 DEF TypeOK
<1>4. CASE Start \/ \E t \in Thoughts : DisputeSettled(t)
  BY <1>4 DEF Start, DisputeSettled, TypeOK, chain, pump, process, pipeline, filer
<1> QED
  BY <1>1, <1>2, <1>3, <1>4, PumpType, TaskType DEF Next

(***************************************************************************)
(* The daemon's state keeps its types: in particular the channel never     *)
(* holds more than its capacity, whatever the pump and the tasks do.       *)
(***************************************************************************)
THEOREM TypeCorrect == Spec => []TypeOK
  BY InitType, NextType, PTL DEF Spec

----------------------------------------------------------------------------
(* What the steps change. *)

(* Appending adds one element. *)
LEMMA Appended ==
  ASSUME NEW S, NEW seq \in Seq(S), NEW elt \in S
  PROVE  ToSet(Append(seq, elt)) = ToSet(seq) \cup {elt}
<1>1. /\ Append(seq, elt) \in Seq(S) /\ Len(Append(seq, elt)) = Len(seq) + 1 /\ Len(seq) \in Nat
      /\ \A i \in 1 .. Len(seq) : Append(seq, elt)[i] = seq[i]
      /\ Append(seq, elt)[Len(seq) + 1] = elt
  BY AppendProperties, LenProperties
<1>2. DOMAIN seq = 1 .. Len(seq) /\ DOMAIN Append(seq, elt) = 1 .. Len(seq) + 1
  BY <1>1, LenProperties
<1> HIDE DEF ToSet
<1>3. ASSUME NEW v PROVE v \in ToSet(Append(seq, elt)) <=> v \in ToSet(seq) \cup {elt}
  <2>1. v \in ToSet(Append(seq, elt)) <=> \E i \in 1 .. Len(seq) + 1 : v = Append(seq, elt)[i]
    BY <1>2 DEF ToSet
  <2>2. v \in ToSet(seq) <=> \E i \in 1 .. Len(seq) : v = seq[i]
    BY <1>2 DEF ToSet
  <2> QED
    BY <1>1, <2>1, <2>2
<1> QED
  BY <1>3

(* The chain forgets nothing. *)
LEMMA PublishedGrows ==
  ASSUME TypeOK, [Next]_vars
  PROVE  ToSet(published) \subseteq ToSet(published)'
<1>1. ASSUME NEW x \in Transactions, Emit(x)
      PROVE  ToSet(published) \subseteq ToSet(published)'
  <2>1. published' = Append(published, x) /\ published \in Seq(Transactions)
    BY <1>1 DEF Emit, TypeOK
  <2>2. ToSet(published)' = ToSet(Append(published, x))
    BY <2>1
  <2> QED
    BY <2>1, <2>2, Appended
<1>2. CASE published' = published
  BY <1>2
<1> QED
  BY <1>1, <1>2
  DEF Next, vars, chain, Connect, ConnectFails, BackoffElapses, Disconnect, StreamEnds, ReadLog,
      Send, Spawn, Stop, Start, DisputeSettled, FetchFails, FetchAndDecide, SubmitOk, SubmitFails,
      Reserve

(* A thought that is on chain stays there. *)
LEMMA OnChainStays ==
  ASSUME TypeOK, [Next]_vars, NEW t \in Thoughts, OnChain(t)
  PROVE  OnChain(t)'
<1>1. PICK x \in ToSet(published) \ Vain : \E line \in ToSet(LogsOf[x]) :
        line.kind = "event" /\ ThoughtOf[line.event] = t
  BY DEF OnChain
<1>2. x \in ToSet(published)' \ Vain
  BY <1>1, PublishedGrows
<1> QED
  BY <1>1, <1>2 DEF OnChain

Idle == UNCHANGED <<taken, task, inFlight, filed, disputes, overlapped>>

(* A step of the tasks and the filer, or one that leaves them alone.       *)
LEMMA FilingSteps ==
  ASSUME [Next]_vars
  PROVE  \/ Idle
         \/ Spawn \/ Stop
         \/ \E t \in Thoughts : DisputeSettled(t)
         \/ \E e \in Events : \/ FetchFails(e) \/ FetchAndDecide(e)
                              \/ SubmitOk(e) \/ SubmitFails(e) \/ Reserve(e)
<1>1. ASSUME NEW x \in Transactions, Emit(x)
      PROVE  Idle
  BY <1>1 DEF Idle, Emit, pipeline, filer
<1> QED
  BY <1>1
  DEF Idle, Next, vars, chain, pipeline, filer, Connect, ConnectFails, BackoffElapses, Disconnect,
      StreamEnds, ReadLog, Send, Start

----------------------------------------------------------------------------
(* Where an event is: logged, in one place of the pump, or with its task.  *)

Seen(e) == \E x \in ToSet(published) : LoggedIn(x, e)
InFeed(e) == \E i \in DOMAIN feed : Announces(feed[i], e)
InQueue(e) == \E i \in DOMAIN queue : queue[i] = e

Placed(e) ==
  /\ \A i, j \in DOMAIN feed : Announces(feed[i], e) /\ Announces(feed[j], e) => i = j
  /\ \A i, j \in DOMAIN queue : queue[i] = e /\ queue[j] = e => i = j
  /\ InFeed(e) => hand # e /\ ~InQueue(e) /\ task[e] = "none"
  /\ hand = e => ~InQueue(e) /\ task[e] = "none"
  /\ InQueue(e) => task[e] = "none"
  /\ InFeed(e) \/ hand = e \/ InQueue(e) \/ task[e] # "none" => Seen(e)

(* An event is logged in one place. *)
LEMMA LoggedOnce ==
  ASSUME NEW e \in Events, NEW x \in Transactions, NEW y \in Transactions,
         NEW i \in DOMAIN LogsOf[x], NEW j \in DOMAIN LogsOf[y],
         Announces(LogsOf[x][i], e), Announces(LogsOf[y][j], e)
  PROVE  x = y /\ i = j
<1>1. LogsOf[x] \in Seq(Lines) /\ LogsOf[y] \in Seq(Lines)
  BY WatcherAssumption
<1>2. LogsOf[x][i] \in Lines /\ LogsOf[y][j] \in Lines
  BY <1>1, ElementOfSeq, LenProperties
<1>3. LogsOf[x][i] = LogsOf[y][j]
  BY <1>2 DEF Lines, Announces
<1> QED
  BY <1>3, EventsAssumption DEF Announces

(* An event is not seen before the transaction that logs it.               *)
LEMMA NotYetSeen ==
  ASSUME TypeOK, NEW e \in Events, NEW x \in Transactions, x \notin ToSet(published), LoggedIn(x, e)
  PROVE  ~Seen(e)
<1> SUFFICES ASSUME NEW y \in ToSet(published), LoggedIn(y, e) PROVE FALSE
  BY DEF Seen
<1>1. y \in Transactions
  BY ElementOfSeq, LenProperties DEF TypeOK, ToSet
<1> QED
  BY <1>1, LoggedOnce DEF LoggedIn

(* What was emitted stays emitted. *)
LEMMA SeenStays ==
  ASSUME TypeOK, [Next]_vars, NEW e, Seen(e)
  PROVE  Seen(e)'
  BY PublishedGrows DEF Seen, LoggedIn

(* A step of no pump and of no idle task moves nothing.                    *)
LEMMA PlacedFrame ==
  ASSUME TypeOK, [Next]_vars, NEW e \in Events, Placed(e),
         feed' = feed, hand' = hand, queue' = queue, task'[e] = "none" <=> task[e] = "none"
  PROVE  Placed(e)'
<1>1. (InFeed(e)' <=> InFeed(e)) /\ (InQueue(e)' <=> InQueue(e))
  BY DEF InFeed, InQueue
<1> QED
  BY <1>1, SeenStays DEF Placed

(* A new transaction's events are on the wire, and nowhere else. *)
LEMMA PlacedEmit ==
  ASSUME TypeOK, [Next]_vars, NEW e \in Events, Placed(e), NEW x \in Transactions, Emit(x)
  PROVE  Placed(e)'
<1> DEFINE log == LogsOf[x]
<1>1. /\ x \notin ToSet(published) /\ UNCHANGED <<hand, queue, task>>
      /\ feed' = feed \/ feed' = feed \o log
      /\ feed \in Seq(Lines) /\ log \in Seq(Lines)
  BY WatcherAssumption DEF Emit, pipeline, TypeOK
<1>2. CASE feed' = feed
  BY <1>1, <1>2, PlacedFrame
<1>3. CASE feed' = feed \o log
  <2>1. /\ DOMAIN feed' = 1 .. Len(feed) + Len(log)
        /\ Len(feed) \in Nat /\ Len(log) \in Nat
        /\ DOMAIN feed = 1 .. Len(feed) /\ DOMAIN log = 1 .. Len(log)
        /\ \A i \in 1 .. Len(feed) + Len(log) :
             feed'[i] = IF i <= Len(feed) THEN feed[i] ELSE log[i - Len(feed)]
    BY <1>1, <1>3, ConcatProperties, LenProperties
  <2>2. InQueue(e)' <=> InQueue(e)
    BY <1>1 DEF InQueue
  <2>3. CASE ~LoggedIn(x, e)
    <3>1. \A i \in 1 .. Len(log) : ~Announces(log[i], e)
      <4>1. \A i \in DOMAIN log : ~Announces(log[i], e)
        BY <2>3 DEF LoggedIn
      <4> QED
        BY <2>1, <4>1
    <3> HIDE DEF log
    <3>2. \A i \in DOMAIN feed' : Announces(feed'[i], e) => i \in DOMAIN feed /\ feed'[i] = feed[i]
      BY <2>1, <3>1
    <3>3. \A i \in DOMAIN feed : i \in DOMAIN feed' /\ feed'[i] = feed[i]
      BY <2>1
    <3>4. InFeed(e)' <=> InFeed(e)
      BY <3>2, <3>3 DEF InFeed
    <3> QED
      BY <1>1, <2>2, <3>2, <3>4, SeenStays DEF Placed
  <2>4. CASE LoggedIn(x, e)
    <3>1. ~Seen(e)
      BY <1>1, <2>4, NotYetSeen
    <3>2. ~InFeed(e) /\ hand # e /\ ~InQueue(e) /\ task[e] = "none"
      BY <3>1 DEF Placed
    <3>3. \A i \in 1 .. Len(feed) : ~Announces(feed[i], e)
      BY <2>1, <3>2 DEF InFeed
    <3>4. \A i, j \in 1 .. Len(log) : Announces(log[i], e) /\ Announces(log[j], e) => i = j
      BY <2>1, LoggedOnce
    <3>5. Seen(e)'
      <4>1. x \in ToSet(published)'
        <5>1. published' = Append(published, x) /\ published \in Seq(Transactions)
          BY DEF Emit, TypeOK
        <5> QED
          BY <5>1, Appended
      <4> QED
        BY <2>4, <4>1 DEF Seen, LoggedIn
    <3> HIDE DEF log
    <3>6. ASSUME NEW i \in DOMAIN feed', Announces(feed'[i], e)
          PROVE  i - Len(feed) \in 1 .. Len(log) /\ Announces(log[i - Len(feed)], e)
      BY <2>1, <3>3, <3>6
    <3>7. \A i, j \in DOMAIN feed' : Announces(feed'[i], e) /\ Announces(feed'[j], e) => i = j
      <4> SUFFICES ASSUME NEW i \in DOMAIN feed', NEW j \in DOMAIN feed',
                          Announces(feed'[i], e), Announces(feed'[j], e)
                   PROVE  i = j
        OBVIOUS
      <4>1. i - Len(feed) = j - Len(feed)
        BY <3>4, <3>6
      <4> QED
        BY <2>1, <4>1
    <3> QED
      BY <1>1, <2>2, <3>2, <3>5, <3>7 DEF Placed
  <2> QED
    BY <2>3, <2>4
<1> QED
  BY <1>1, <1>2, <1>3

(* Reading a line takes the event off the wire, once. *)
LEMMA PlacedRead ==
  ASSUME TypeOK, [Next]_vars, NEW e \in Events, Placed(e), ReadLog
  PROVE  Placed(e)'
<1>1. /\ hand = NoEvent /\ feed # <<>> /\ hand' = Parsed(Head(feed)) /\ feed' = Tail(feed)
      /\ UNCHANGED <<queue, task>> /\ feed \in Seq(Lines)
  BY DEF ReadLog, pipeline, TypeOK
<1>2. /\ Head(feed) = feed[1] /\ Head(feed) \in Lines
      /\ DOMAIN feed = 1 .. Len(feed) /\ Len(feed) \in Nat /\ Len(feed) # 0
      /\ DOMAIN feed' = 1 .. Len(feed) - 1
      /\ \A i \in 1 .. Len(feed) - 1 : feed'[i] = feed[i + 1]
  <2>1. Head(feed) \in Lines /\ Tail(feed) \in Seq(Lines) /\ Len(Tail(feed)) = Len(feed) - 1
        /\ \A i \in 1 .. Len(Tail(feed)) : Tail(feed)[i] = feed[i + 1]
    BY <1>1, HeadTailProperties
  <2>2. DOMAIN feed = 1 .. Len(feed) /\ Len(feed) \in Nat /\ Len(feed) # 0
    BY <1>1, LenProperties, EmptySeq
  <2>3. DOMAIN feed' = 1 .. Len(feed')
    BY <1>1, <2>1, LenProperties
  <2>4. Head(feed) = feed[1]
    BY <1>1
  <2> QED
    BY <1>1, <2>1, <2>2, <2>3, <2>4
<1>3. hand' = e => Announces(feed[1], e)
  BY <1>1, <1>2, WatcherAssumption DEF Parsed, Lines, Announces, Ignored, Malformed
<1>4. InQueue(e)' <=> InQueue(e)
  BY <1>1 DEF InQueue
<1>5. hand # e
  BY <1>1, WatcherAssumption
<1>6. InFeed(e)' => InFeed(e)
  BY <1>2 DEF InFeed
<1>7. hand' = e => InFeed(e) /\ ~InFeed(e)'
  <2> SUFFICES ASSUME hand' = e PROVE InFeed(e) /\ ~InFeed(e)'
    OBVIOUS
  <2>1. 1 \in DOMAIN feed /\ Announces(feed[1], e)
    BY <1>2, <1>3
  <2>2. ASSUME NEW i \in DOMAIN feed', Announces(feed'[i], e) PROVE FALSE
    <3>1. i + 1 \in DOMAIN feed /\ Announces(feed[i + 1], e) /\ i + 1 # 1
      BY <1>2, <2>2
    <3> QED
      BY <2>1, <3>1 DEF Placed
  <2> QED
    BY <2>1, <2>2 DEF InFeed
<1>8. \A i, j \in DOMAIN feed' : Announces(feed'[i], e) /\ Announces(feed'[j], e) => i = j
  <2> SUFFICES ASSUME NEW i \in DOMAIN feed', NEW j \in DOMAIN feed',
                      Announces(feed'[i], e), Announces(feed'[j], e)
               PROVE  i = j
    OBVIOUS
  <2>1. i + 1 \in DOMAIN feed /\ j + 1 \in DOMAIN feed
        /\ Announces(feed[i + 1], e) /\ Announces(feed[j + 1], e)
    BY <1>2
  <2>2. i + 1 = j + 1
    BY <2>1 DEF Placed
  <2> QED
    BY <1>2, <2>2
<1> QED
  BY <1>1, <1>4, <1>5, <1>6, <1>7, <1>8, SeenStays DEF Placed

(* Sending moves the event into the channel. *)
LEMMA PlacedSend ==
  ASSUME TypeOK, [Next]_vars, NEW e \in Events, Placed(e), Send
  PROVE  Placed(e)'
<1>1. /\ hand \in Events /\ queue' = Append(queue, hand) /\ hand' = NoEvent /\ NoEvent # e
      /\ UNCHANGED <<feed, task>> /\ queue \in Seq(Events)
  BY WatcherAssumption DEF Send, TypeOK
<1>2. /\ DOMAIN queue = 1 .. Len(queue) /\ DOMAIN queue' = 1 .. Len(queue) + 1
      /\ Len(queue) \in Nat
      /\ \A i \in 1 .. Len(queue) : queue'[i] = queue[i]
      /\ queue'[Len(queue) + 1] = hand
  BY <1>1, AppendProperties, LenProperties
<1>3. InFeed(e)' <=> InFeed(e)
  BY <1>1 DEF InFeed
<1>4. InQueue(e)' <=> InQueue(e) \/ hand = e
  BY <1>2 DEF InQueue
<1>5. \A i, j \in DOMAIN queue' : queue'[i] = e /\ queue'[j] = e => i = j
  <2>1. CASE hand = e
    <3>1. \A i \in 1 .. Len(queue) : queue[i] # e
      BY <1>2, <2>1 DEF Placed, InQueue
    <3> QED
      BY <1>2, <3>1
  <2>2. CASE hand # e
    <3>1. \A i \in DOMAIN queue' : queue'[i] = e => i \in DOMAIN queue /\ queue[i] = e
      BY <1>2, <2>2
    <3> QED
      BY <3>1 DEF Placed
  <2> QED
    BY <2>1, <2>2
<1> QED
  BY <1>1, <1>3, <1>4, <1>5, SeenStays DEF Placed

(* Spawning moves it from the channel to its task. *)
LEMMA PlacedSpawn ==
  ASSUME TypeOK, [Next]_vars, NEW e \in Events, Placed(e), Spawn
  PROVE  Placed(e)'
<1> DEFINE first == Head(queue)
<1>1. /\ queue # <<>> /\ queue \in Seq(Events) /\ queue' = Tail(queue)
      /\ task' = [task EXCEPT ![first] = "fetching"]
      /\ UNCHANGED <<feed, hand>>
  BY DEF Spawn, pump, TypeOK
<1>2. /\ first = queue[1] /\ first \in Events
      /\ DOMAIN queue = 1 .. Len(queue) /\ Len(queue) \in Nat /\ Len(queue) # 0
      /\ DOMAIN queue' = 1 .. Len(queue) - 1
      /\ \A i \in 1 .. Len(queue) - 1 : queue'[i] = queue[i + 1]
  <2>1. Head(queue) \in Events /\ Tail(queue) \in Seq(Events) /\ Len(Tail(queue)) = Len(queue) - 1
        /\ \A i \in 1 .. Len(Tail(queue)) : Tail(queue)[i] = queue[i + 1]
    BY <1>1, HeadTailProperties
  <2>2. DOMAIN queue = 1 .. Len(queue) /\ Len(queue) \in Nat /\ Len(queue) # 0
    BY <1>1, LenProperties, EmptySeq
  <2>3. DOMAIN queue' = 1 .. Len(queue')
    BY <1>1, <2>1, LenProperties
  <2>4. Head(queue) = queue[1]
    BY <1>1
  <2> QED
    BY <1>1, <2>1, <2>2, <2>3, <2>4
<1> HIDE DEF first
<1>3. InFeed(e)' <=> InFeed(e)
  BY <1>1 DEF InFeed
<1>4. InQueue(e)' => InQueue(e)
  BY <1>2 DEF InQueue
<1>5. first = e => InQueue(e) /\ ~InQueue(e)'
  <2> SUFFICES ASSUME first = e PROVE InQueue(e) /\ ~InQueue(e)'
    OBVIOUS
  <2>1. 1 \in DOMAIN queue /\ queue[1] = e
    BY <1>2
  <2>2. ASSUME NEW i \in DOMAIN queue', queue'[i] = e PROVE FALSE
    <3>1. i + 1 \in DOMAIN queue /\ queue[i + 1] = e /\ i + 1 # 1
      BY <1>2, <2>2
    <3> QED
      BY <2>1, <3>1 DEF Placed
  <2> QED
    BY <2>1, <2>2 DEF InQueue
<1>6. \A i, j \in DOMAIN queue' : queue'[i] = e /\ queue'[j] = e => i = j
  <2> SUFFICES ASSUME NEW i \in DOMAIN queue', NEW j \in DOMAIN queue', queue'[i] = e, queue'[j] = e
               PROVE  i = j
    OBVIOUS
  <2>1. i + 1 \in DOMAIN queue /\ j + 1 \in DOMAIN queue /\ queue[i + 1] = e /\ queue[j + 1] = e
    BY <1>2
  <2>2. i + 1 = j + 1
    BY <2>1 DEF Placed
  <2> QED
    BY <1>2, <2>2
<1>7. task'[e] = IF first = e THEN "fetching" ELSE task[e]
  BY <1>1 DEF TypeOK
<1>8. Seen(e) => Seen(e)'
  BY SeenStays
<1>9. CASE first = e
  BY <1>1, <1>3, <1>5, <1>6, <1>8, <1>9 DEF Placed
<1>10. CASE first # e
  BY <1>1, <1>3, <1>4, <1>6, <1>7, <1>8, <1>10 DEF Placed
<1> QED
  BY <1>9, <1>10

(* A restart clears the stream and the channel, and kills the tasks. *)
LEMMA PlacedStop ==
  ASSUME TypeOK, [Next]_vars, NEW e \in Events, Placed(e), Stop
  PROVE  Placed(e)'
<1>1. feed' = <<>> /\ hand' = NoEvent /\ queue' = <<>> /\ NoEvent # e
  BY WatcherAssumption DEF Stop
<1>2. task'[e] # "none" => task[e] # "none"
  BY DEF Stop, TypeOK
<1>3. DOMAIN feed' = {} /\ DOMAIN queue' = {}
  BY <1>1
<1>4. ~InFeed(e)' /\ ~InQueue(e)'
  BY <1>3 DEF InFeed, InQueue
<1> QED
  BY <1>1, <1>2, <1>3, <1>4, SeenStays DEF Placed

(* Every step keeps an event in at most one place. *)
LEMMA PlacedNext ==
  ASSUME TypeOK, [Next]_vars, NEW e \in Events, Placed(e)
  PROVE  Placed(e)'
<1>1. ASSUME \/ UNCHANGED vars \/ Start
             \/ Connect \/ ConnectFails \/ BackoffElapses \/ Disconnect \/ StreamEnds
             \/ \E t \in Thoughts : DisputeSettled(t)
      PROVE  Placed(e)'
  <2>1. UNCHANGED <<feed, hand, queue, task>>
    BY <1>1 DEF vars, chain, pump, pipeline, Start, Connect, ConnectFails, BackoffElapses, Disconnect,
                StreamEnds, DisputeSettled
  <2> QED
    BY <2>1, PlacedFrame
<1>2. ASSUME NEW f \in Events,
             \/ FetchFails(f) \/ FetchAndDecide(f)
             \/ SubmitOk(f) \/ SubmitFails(f) \/ Reserve(f)
      PROVE  Placed(e)'
  <2>1. UNCHANGED <<feed, hand, queue>>
    BY <1>2 DEF FetchFails, FetchAndDecide, SubmitOk, SubmitFails, Reserve, pump
  <2>2. task[f] # "none" /\ \E to \in {"submitting", "reserving", "done"} :
          task' = [task EXCEPT ![f] = to]
    BY <1>2 DEF FetchFails, FetchAndDecide, SubmitOk, SubmitFails, Reserve
  <2>3. task'[e] = "none" <=> task[e] = "none"
    BY <2>2 DEF TypeOK
  <2> QED
    BY <2>1, <2>3, PlacedFrame
<1> QED
  BY <1>1, <1>2, PlacedEmit, PlacedRead, PlacedSend, PlacedSpawn, PlacedStop DEF Next

(* An event is always in at most one place. *)
LEMMA PlacedInvariant == Spec => [](\A e \in Events : Placed(e))
<1> DEFINE Inv == \A e \in Events : Placed(e)
<1>1. Init => Inv
  BY WatcherAssumption DEF Init, Placed, InFeed, InQueue
<1>2. TypeOK /\ Inv /\ [Next]_vars => Inv'
  BY PlacedNext
<1> QED
  BY <1>1, <1>2, TypeCorrect, PTL DEF Spec

(* An event still in the channel has no task yet. *)
LEMMA SpawnsAreFresh ==
  ASSUME TypeOK, \A e \in Events : Placed(e), Spawn
  PROVE  Head(queue) \in Events /\ task[Head(queue)] = "none"
<1>1. queue \in Seq(Events) /\ queue # <<>>
  BY DEF Spawn, TypeOK
<1>2. 1 \in DOMAIN queue /\ Head(queue) = queue[1] /\ Head(queue) \in Events
  BY <1>1, HeadTailProperties, LenProperties, EmptySeq
<1> QED
  BY <1>2 DEF Placed, InQueue

----------------------------------------------------------------------------
(* What a filing rests on. *)

(* The strengthening: what is known of a task on its way to a filing, and  *)
(* of what came of it.                                                     *)
OnItsWay(e) ==
  /\ task[e] = "submitting" => Grounds(e)
  /\ task[e] \in {"fetching", "submitting", "reserving"} => e \in ToSet(taken)

FiledOnGrounds(e) == e \in filed => Grounds(e) /\ e \in ToSet(taken)

Witnesses(e, t) == ThoughtOf[e] = t /\ Grounds(e) /\ Seen(e)
DisputedOnGrounds(t) ==
  disputes[t] # "none" => OnChain(t) /\ \E e \in Events : Witnesses(e, t)

GroundsInv ==
  /\ \A e \in Events : OnItsWay(e) /\ FiledOnGrounds(e)
  /\ \A t \in Thoughts : DisputedOnGrounds(t)

(* decide files over a mismatch alone. *)
LEMMA FiledOnlyOnMismatch ==
  ASSUME NEW e \in Events, NEW stake, NEW bondMin, NEW held,
         Decide(Strategy, OutcomeOf[e], stake, bondMin, held) = "File"
  PROVE  Grounds(e)
<1>1. OutcomeOf[e] \in {"Match", "Mismatch"}
  BY WatcherAssumption
<1>2. CASE Strategy = "Disabled"
  BY <1>2 DEF Decide
<1>3. CASE Strategy # "Disabled" /\ OutcomeOf[e] = "Match"
  BY <1>3 DEF Decide
<1>4. CASE Strategy # "Disabled" /\ OutcomeOf[e] = "Mismatch"
  BY <1>4 DEF Grounds
<1> QED
  BY <1>1, <1>2, <1>3, <1>4

(* A dispute keeps its witness. *)
LEMMA DisputeKeepsGrounds ==
  ASSUME TypeOK, GroundsInv, [Next]_vars, NEW t \in Thoughts, disputes[t] # "none"
  PROVE  DisputedOnGrounds(t)'
<1>1. OnChain(t) /\ \E e \in Events : Witnesses(e, t)
  BY DEF GroundsInv, DisputedOnGrounds
<1>2. OnChain(t)'
  BY <1>1, OnChainStays
<1>3. PICK e \in Events : Witnesses(e, t)
  BY <1>1
<1>4. Witnesses(e, t)'
  BY <1>3, SeenStays DEF Witnesses, Grounds
<1> QED
  BY <1>2, <1>4 DEF DisputedOnGrounds

(* From filing to dispute, a task rests on what its event says. *)
LEMMA GroundsNext ==
  ASSUME TypeOK, GroundsInv, \A e \in Events : Placed(e), [Next]_vars
  PROVE  GroundsInv'
<1>1. ASSUME NEW t \in Thoughts, disputes'[t] # "none" => disputes[t] # "none"
      PROVE  DisputedOnGrounds(t)'
  BY <1>1, DisputeKeepsGrounds DEF DisputedOnGrounds
<1>2. ASSUME Idle
      PROVE  GroundsInv'
  BY <1>1, <1>2 DEF Idle, GroundsInv, OnItsWay, FiledOnGrounds, Grounds
<1>3. ASSUME Spawn
      PROVE  GroundsInv'
  <2>1. /\ Head(queue) \in Events /\ taken' = Append(taken, Head(queue)) /\ taken \in Seq(Events)
        /\ task' = [task EXCEPT ![Head(queue)] = "fetching"]
        /\ UNCHANGED <<filed, disputes>>
    BY <1>3, HeadTailProperties DEF Spawn, TypeOK, chain, filer
  <2>2. ToSet(taken)' = ToSet(taken) \cup {Head(queue)}
    BY <2>1, Appended
  <2>3. \A e \in Events : OnItsWay(e)' /\ FiledOnGrounds(e)'
    BY <2>1, <2>2 DEF GroundsInv, OnItsWay, FiledOnGrounds, Grounds, TypeOK
  <2> QED
    BY <1>1, <2>1, <2>3 DEF GroundsInv
<1>4. ASSUME Stop
      PROVE  GroundsInv'
  <2>1. \A e \in Events : task'[e] \notin {"fetching", "submitting", "reserving"}
    BY <1>4 DEF Stop
  <2>2. disputes' = disputes /\ filed' = {}
    BY <1>4 DEF Stop, chain
  <2> QED
    BY <1>1, <2>1, <2>2 DEF GroundsInv, OnItsWay, FiledOnGrounds
<1>5. ASSUME NEW t \in Thoughts, DisputeSettled(t)
      PROVE  GroundsInv'
  <2>1. /\ disputes[t] = "open" /\ disputes' = [disputes EXCEPT ![t] = "settled"]
        /\ UNCHANGED <<filed, task, taken>>
    BY <1>5 DEF DisputeSettled, pipeline, filer
  <2>2. \A u \in Thoughts : disputes'[u] # "none" <=> disputes[u] # "none"
    BY <2>1 DEF TypeOK
  <2> QED
    BY <1>1, <2>1, <2>2 DEF GroundsInv, OnItsWay, FiledOnGrounds, Grounds
<1>6. ASSUME NEW e \in Events, NEW to, task' = [task EXCEPT ![e] = to],
             to \notin {"fetching", "submitting", "reserving"}, UNCHANGED <<filed, taken, disputes>>
      PROVE  GroundsInv'
  BY <1>1, <1>6 DEF GroundsInv, OnItsWay, FiledOnGrounds, Grounds, TypeOK
<1>7. ASSUME NEW e \in Events, FetchAndDecide(e)
      PROVE  GroundsInv'
  <2>1. UNCHANGED <<filed, taken, disputes>> /\ task[e] = "fetching"
    BY <1>7 DEF FetchAndDecide, chain
  <2>2. CASE Decide(Strategy, OutcomeOf[e], AgentStake, BondMin, inFlight) = "File"
    <3>1. task' = [task EXCEPT ![e] = "submitting"]
      BY <1>7, <2>2 DEF FetchAndDecide
    <3>2. Grounds(e)
      BY <2>2, FiledOnlyOnMismatch
    <3> QED
      BY <1>1, <2>1, <3>1, <3>2 DEF GroundsInv, OnItsWay, FiledOnGrounds, Grounds, TypeOK
  <2>3. CASE ~(Decide(Strategy, OutcomeOf[e], AgentStake, BondMin, inFlight) = "File")
    BY <1>6, <1>7, <2>1, <2>3 DEF FetchAndDecide
  <2> QED
    BY <2>2, <2>3
<1>8. ASSUME NEW e \in Events, SubmitOk(e)
      PROVE  GroundsInv'
  <2> DEFINE u == ThoughtOf[e]
  <2>1. /\ task[e] = "submitting" /\ task' = [task EXCEPT ![e] = "reserving"]
        /\ filed' = filed \cup {e} /\ taken' = taken
        /\ disputes' = disputes \/ (OnChain(u) /\ disputes' = [disputes EXCEPT ![u] = "open"])
    BY <1>8 DEF SubmitOk
  <2>2. u \in Thoughts
    BY WatcherAssumption
  <2>3. Grounds(e) /\ e \in ToSet(taken)
    BY <2>1 DEF GroundsInv, OnItsWay
  <2>4. Seen(e)'
    BY <2>1, SeenStays DEF Placed
  <2>5. Witnesses(e, u)'
    BY <2>3, <2>4 DEF Witnesses, Grounds
  <2>6. OnChain(u) => OnChain(u)'
    BY <2>2, OnChainStays
  <2> HIDE DEF u
  <2>7. ASSUME NEW t \in Thoughts
        PROVE  DisputedOnGrounds(t)'
    <3>1. CASE disputes'[t] # "none" => disputes[t] # "none"
      BY <1>1, <3>1
    <3>2. CASE disputes'[t] # "none" /\ disputes[t] = "none"
      <4>1. t = u /\ OnChain(u)
        BY <2>1, <3>2 DEF TypeOK
      <4> QED
        BY <2>5, <2>6, <4>1 DEF DisputedOnGrounds
    <3> QED
      BY <3>1, <3>2
  <2>8. \A f \in Events : OnItsWay(f)'
    BY <2>1, <2>3 DEF GroundsInv, OnItsWay, Grounds, TypeOK
  <2>9. \A f \in Events : FiledOnGrounds(f)'
    BY <2>1, <2>3 DEF GroundsInv, FiledOnGrounds, Grounds
  <2> QED
    BY <2>7, <2>8, <2>9 DEF GroundsInv
<1>9. ASSUME NEW e \in Events, FetchFails(e) \/ SubmitFails(e) \/ Reserve(e)
      PROVE  GroundsInv'
  BY <1>6, <1>9 DEF FetchFails, SubmitFails, Reserve, chain, filer
<1> QED
  BY <1>2, <1>3, <1>4, <1>5, <1>7, <1>8, <1>9, FilingSteps

(* It holds always. *)
LEMMA GroundsInvariant == Spec => []GroundsInv
<1> DEFINE Inv == \A e \in Events : Placed(e)
<1>1. Init => GroundsInv
  BY WatcherAssumption DEF Init, GroundsInv, OnItsWay, FiledOnGrounds, DisputedOnGrounds
<1>2. TypeOK /\ GroundsInv /\ Inv /\ [Next]_vars => GroundsInv'
  BY GroundsNext
<1> QED
  BY <1>1, <1>2, TypeCorrect, PlacedInvariant, PTL DEF Spec

(***************************************************************************)
(* Every accepted filing rests on an event that was taken and that the     *)
(* trace it names contradicts, and every dispute, over restarts, on such   *)
(* an event that a confirmed transaction logged, over a thought that is on *)
(* chain; an observer files nothing.  Whatever transactions fail after     *)
(* logging, and however tasks and restarts interleave.                     *)
(***************************************************************************)
THEOREM FilingsAreGrounded == Spec => []FilingsHaveGrounds
<1>1. TypeOK /\ GroundsInv => FilingsHaveGrounds
  BY DEF TypeOK, GroundsInv, FiledOnGrounds, DisputedOnGrounds, Witnesses, Seen, FilingsHaveGrounds
<1> QED
  BY <1>1, TypeCorrect, GroundsInvariant, PTL

----------------------------------------------------------------------------
(* The bonds in flight. *)

Held == {e \in filed : task[e] # "reserving"}
Committed == filed \cup Filing

(* The strengthening: a filing is accepted once for an event and before it *)
(* is reserved, and only finitely many have been.                          *)
FiledOnce(e) ==
  /\ task[e] = "reserving" => e \in filed
  /\ e \in filed => task[e] \in {"reserving", "done"}

Counted ==
  /\ \A e \in Events : FiledOnce(e)
  /\ IsFiniteSet(Committed)
  /\ inFlight = Bond * Cardinality(Held)

WithinStake == ~overlapped => Bond * Cardinality(Committed) <= MaxAtRisk

(* The filings counted are finitely many if those committed to are. *)
LEMMA HeldIsFinite ==
  ASSUME IsFiniteSet(Committed)
  PROVE  /\ IsFiniteSet(Held) /\ Cardinality(Held) \in Nat
         /\ Cardinality(Committed) \in Nat
<1>1. Held \in SUBSET Committed
  BY DEF Held, Committed
<1> QED
  BY <1>1, FS_Subset, FS_CardinalityType

(* decide files only what fits the cap beside the counter. *)
LEMMA FilesWithinCap ==
  ASSUME MaxAtRisk < MaxU64, TypeOK, NEW outcome \in {"Match", "Mismatch"},
         Decide(Strategy, outcome, AgentStake, BondMin, inFlight) = "File"
  PROVE  Bond + inFlight <= MaxAtRisk
<1>1. Bond \in Nat /\ inFlight \in Nat /\ MaxAtRisk \in Nat /\ MaxU64 \in Nat
  BY BondIsNatural, FilingAssumption DEF TypeOK
<1>2. WithinCap(Bond, inFlight)
  <2>1. CASE Strategy = "Disabled"
    BY <2>1 DEF Decide
  <2>2. CASE Strategy # "Disabled" /\ outcome = "Match"
    BY <2>2 DEF Decide
  <2>3. CASE Strategy # "Disabled" /\ outcome = "Mismatch"
    BY <2>3 DEF Decide, Bond
  <2> QED
    BY <2>1, <2>2, <2>3
<1> QED
  BY <1>1, <1>2 DEF WithinCap, Saturate

(* What each step does to the filings. *)
SameFilings ==
  /\ Held' = Held
  /\ inFlight' = inFlight
  /\ \A e \in Events : FiledOnce(e)'

(* A task that changes state without reserving moves no filing. *)
LEMMA TaskFilings ==
  ASSUME TypeOK, Counted, NEW e \in Events, NEW to,
         to # "reserving", task[e] \notin {"reserving", "done"}, task' = [task EXCEPT ![e] = to],
         filed' = filed, inFlight' = inFlight
  PROVE  /\ SameFilings
         /\ Committed' \subseteq Committed \cup {e}
         /\ to # "submitting" => Committed' \subseteq Committed
<1>1. \A f \in Events : task'[f] = "reserving" <=> task[f] = "reserving"
  BY DEF TypeOK
<1>2. Held' = Held
  BY <1>1 DEF Held, TypeOK
<1>3. \A f \in Events : FiledOnce(f)'
  BY <1>1 DEF Counted, FiledOnce, TypeOK
<1>4. /\ Filing' \subseteq Filing \cup {e}
      /\ to # "submitting" => Filing' \subseteq Filing
  BY <1>1 DEF Filing, TypeOK
<1> QED
  BY <1>2, <1>3, <1>4 DEF SameFilings, Committed

(* An accepted submission is still to be counted. *)
LEMMA SubmitFilings ==
  ASSUME TypeOK, Counted, NEW e \in Events, SubmitOk(e)
  PROVE  SameFilings /\ Committed' \subseteq Committed
<1>1. /\ task[e] = "submitting" /\ task' = [task EXCEPT ![e] = "reserving"]
      /\ filed' = filed \cup {e} /\ inFlight' = inFlight
  BY DEF SubmitOk
<1>2. e \notin filed
  BY <1>1 DEF Counted, FiledOnce
<1>3. \A f \in Events : task'[f] = IF f = e THEN "reserving" ELSE task[f]
  BY <1>1 DEF TypeOK
<1>4. Held' = Held
  BY <1>1, <1>2, <1>3 DEF Held, TypeOK
<1>5. \A f \in Events : FiledOnce(f)'
  BY <1>1, <1>3 DEF Counted, FiledOnce
<1>6. Committed' \subseteq Committed
  BY <1>1, <1>3 DEF Committed, Filing
<1> QED
  BY <1>1, <1>4, <1>5, <1>6 DEF SameFilings

(* Reserving counts one filing, once. *)
LEMMA ReserveFilings ==
  ASSUME TypeOK, Counted, NEW e \in Events, Reserve(e)
  PROVE  /\ Held' = Held \cup {e} /\ e \notin Held
         /\ inFlight' = inFlight + Bond
         /\ \A f \in Events : FiledOnce(f)'
         /\ Committed' \subseteq Committed
<1>1. /\ task[e] = "reserving" /\ task' = [task EXCEPT ![e] = "done"]
      /\ filed' = filed /\ inFlight' = inFlight + Bond
  BY DEF Reserve, Reserved
<1>2. e \in filed
  BY <1>1 DEF Counted, FiledOnce
<1>3. \A f \in Events : task'[f] = IF f = e THEN "done" ELSE task[f]
  BY <1>1 DEF TypeOK
<1>4. Held' = Held \cup {e} /\ e \notin Held
  BY <1>1, <1>2, <1>3 DEF Held, TypeOK
<1>5. \A f \in Events : FiledOnce(f)'
  BY <1>1, <1>3 DEF Counted, FiledOnce
<1>6. Committed' \subseteq Committed
  BY <1>1, <1>3 DEF Committed, Filing
<1> QED
  BY <1>1, <1>4, <1>5, <1>6

(* Stopping the daemon forgets its filings.                                *)
LEMMA StopFilings ==
  ASSUME Stop
  PROVE  /\ Held' = {} /\ Committed' = {} /\ inFlight' = 0
         /\ \A e \in Events : FiledOnce(e)'
<1>1. filed' = {} /\ inFlight' = 0
  BY DEF Stop
<1>2. \A e \in Events : task'[e] \notin {"submitting", "reserving"}
  BY DEF Stop
<1> QED
  BY <1>1, <1>2 DEF Held, Committed, Filing, FiledOnce

(* What each step does to the filings under way and counted. *)
LEMMA FilingsMove ==
  ASSUME TypeOK, \A e \in Events : Placed(e), Counted, [Next]_vars
  PROVE  \/ SameFilings /\ Committed' \subseteq Committed
         \/ \E e \in Events : FetchAndDecide(e) /\ SameFilings
                              /\ Committed' \subseteq Committed \cup {e}
         \/ \E e \in Events : Reserve(e)
         \/ Stop
<1>1. ASSUME Idle \/ \E t \in Thoughts : DisputeSettled(t)
      PROVE  SameFilings /\ Committed' \subseteq Committed
  <2>1. UNCHANGED <<task, filed, inFlight>>
    BY <1>1 DEF Idle, DisputeSettled, pipeline, filer
  <2> QED
    BY <2>1 DEF SameFilings, Held, Committed, Filing, Counted, FiledOnce
<1>2. ASSUME Spawn
      PROVE  SameFilings /\ Committed' \subseteq Committed
  <2>1. /\ Head(queue) \in Events /\ task[Head(queue)] = "none"
        /\ \E to \in {"fetching"} : task' = [task EXCEPT ![Head(queue)] = to]
        /\ UNCHANGED <<filed, inFlight>>
    BY <1>2, SpawnsAreFresh DEF Spawn, filer
  <2> QED
    BY <2>1, TaskFilings
<1>3. ASSUME NEW e \in Events, FetchFails(e) \/ SubmitFails(e)
      PROVE  SameFilings /\ Committed' \subseteq Committed
  <2>1. /\ task[e] \notin {"reserving", "done"} /\ \E to \in {"done"} : task' = [task EXCEPT ![e] = to]
        /\ UNCHANGED <<filed, inFlight>>
    BY <1>3 DEF FetchFails, SubmitFails, filer
  <2> QED
    BY <2>1, TaskFilings
<1>4. ASSUME NEW e \in Events, FetchAndDecide(e)
      PROVE  SameFilings /\ Committed' \subseteq Committed \cup {e}
  <2>1. /\ task[e] \notin {"reserving", "done"} /\ UNCHANGED <<filed, inFlight>>
        /\ \E to \in {"submitting", "done"} : task' = [task EXCEPT ![e] = to]
    BY <1>4 DEF FetchAndDecide
  <2> QED
    BY <2>1, TaskFilings
<1> QED
  BY <1>1, <1>2, <1>3, <1>4, SubmitFilings, FilingSteps

(* Every step keeps the counter the number of bonds filed. *)
LEMMA CountedNext ==
  ASSUME TypeOK, \A e \in Events : Placed(e), Counted, [Next]_vars
  PROVE  Counted'
<1>1. ASSUME SameFilings, NEW e, Committed' \subseteq Committed \cup {e}
      PROVE  Counted'
  <2>1. IsFiniteSet(Committed \cup {e})
    BY FS_AddElement DEF Counted
  <2>2. IsFiniteSet(Committed')
    BY <1>1, <2>1, FS_Subset
  <2> QED
    BY <1>1, <2>2 DEF SameFilings, Counted
<1>2. ASSUME SameFilings, Committed' \subseteq Committed
      PROVE  Counted'
  BY <1>1, <1>2
<1>3. ASSUME NEW e \in Events, Reserve(e)
      PROVE  Counted'
  <2>1. /\ Held' = Held \cup {e} /\ e \notin Held
        /\ inFlight' = inFlight + Bond
        /\ \A f \in Events : FiledOnce(f)'
        /\ Committed' \subseteq Committed
    BY <1>3, ReserveFilings
  <2>2. IsFiniteSet(Committed')
    BY <2>1, FS_Subset DEF Counted
  <2>3. IsFiniteSet(Held) /\ Cardinality(Held) \in Nat
    BY HeldIsFinite DEF Counted
  <2>4. Cardinality(Held') = Cardinality(Held) + 1
    BY <2>1, <2>3, FS_AddElement
  <2>5. Bond * (Cardinality(Held) + 1) = Bond * Cardinality(Held) + Bond
    BY <2>3, BondIsNatural
  <2>6. inFlight' = Bond * Cardinality(Held')
    BY <2>1, <2>4, <2>5 DEF Counted
  <2> QED
    BY <2>1, <2>2, <2>6 DEF Counted, Bond
<1>4. ASSUME Stop
      PROVE  Counted'
  <2>1. Bond * 0 = 0
    BY BondIsNatural
  <2> QED
    BY <1>4, <2>1, StopFilings, FS_EmptySet DEF Counted, Bond
<1> QED
  BY <1>1, <1>2, <1>3, <1>4, FilingsMove

(* It holds always. *)
LEMMA CountedInvariant == Spec => []Counted
<1> DEFINE Inv == \A e \in Events : Placed(e)
<1>1. Init => Counted
  <2> SUFFICES ASSUME Init PROVE Counted
    OBVIOUS
  <2>1. /\ Held = {} /\ Committed = {} /\ inFlight = 0 /\ \A e \in Events : FiledOnce(e)
    BY DEF Init, Held, Committed, Filing, FiledOnce
  <2>2. Bond * 0 = 0
    BY BondIsNatural
  <2> QED
    BY <2>1, <2>2, FS_EmptySet DEF Counted
<1>2. TypeOK /\ Inv /\ Counted /\ [Next]_vars => Counted'
  BY CountedNext
<1> QED
  BY <1>1, <1>2, TypeCorrect, PlacedInvariant, PTL DEF Spec

(***************************************************************************)
(* in_flight_bond is one bond for each submission this process got         *)
(* accepted and has reserved, however many tasks file at once, over one    *)
(* thought or several, and whatever submissions fail.                      *)
(***************************************************************************)
THEOREM InFlightCounts == Spec => []InFlightIsReserved
<1>1. TypeOK /\ Counted => InFlightIsReserved
  BY DEF Counted, Held, InFlightIsReserved
<1> QED
  BY <1>1, TypeCorrect, CountedInvariant, PTL

----------------------------------------------------------------------------
(* The cap. *)

(* Filings that do not overlap stay within the cap. *)
LEMMA CapNext ==
  ASSUME MaxAtRisk < MaxU64, TypeOK, \A e \in Events : Placed(e),
         Counted, WithinStake, [Next]_vars
  PROVE  WithinStake'
<1>1. Counted'
  BY CountedNext
<1>2. /\ Cardinality(Committed) \in Nat /\ Cardinality(Committed') \in Nat
      /\ Bond \in Nat /\ MaxAtRisk \in Nat
  BY <1>1, FS_CardinalityType, BondIsNatural, FilingAssumption DEF Counted
<1>3. ASSUME overlapped' = overlapped, Committed' \subseteq Committed
      PROVE  WithinStake'
  <2>1. Cardinality(Committed') <= Cardinality(Committed)
    BY <1>3, FS_Subset DEF Counted
  <2>2. Bond * Cardinality(Committed') <= Bond * Cardinality(Committed)
    BY <1>2, <2>1
  <2> QED
    BY <1>2, <1>3, <2>2 DEF WithinStake, Bond
<1>4. ASSUME NEW e \in Events, FetchAndDecide(e)
      PROVE  WithinStake'
  <2> DEFINE decision == Decide(Strategy, OutcomeOf[e], AgentStake, BondMin, inFlight)
  <2>1. OutcomeOf[e] \in {"Match", "Mismatch"}
    BY WatcherAssumption
  <2>2. CASE decision # "File"
    <3>1. overlapped' = overlapped /\ task' = [task EXCEPT ![e] = "done"] /\ filed' = filed
      BY <1>4, <2>2 DEF FetchAndDecide
    <3>2. Committed' \subseteq Committed
      BY <3>1 DEF Committed, Filing, TypeOK
    <3> QED
      BY <1>3, <3>1, <3>2
  <2>3. CASE decision = "File"
    <3> SUFFICES ASSUME ~overlapped' PROVE Bond * Cardinality(Committed') <= MaxAtRisk
      BY DEF WithinStake, Bond
    <3>1. Filing = {} /\ task' = [task EXCEPT ![e] = "submitting"] /\ filed' = filed
      BY <1>4, <2>3 DEF FetchAndDecide
    <3>2. Bond + inFlight <= MaxAtRisk
      BY <2>1, <2>3, FilesWithinCap
    <3>3. Held = filed /\ Committed = filed
      BY <3>1 DEF Held, Committed, Filing, TypeOK
    <3>4. Committed' \subseteq Committed \cup {e}
      BY <3>1 DEF Committed, Filing, TypeOK
    <3>5. Cardinality(Committed') <= Cardinality(Committed) + 1
      <4>1. /\ IsFiniteSet(Committed \cup {e})
            /\ Cardinality(Committed \cup {e}) <= Cardinality(Committed) + 1
        <5>1. IsFiniteSet(Committed)
          BY DEF Counted
        <5>2. /\ IsFiniteSet(Committed \cup {e})
              /\ Cardinality(Committed \cup {e})
                   = IF e \in Committed THEN Cardinality(Committed) ELSE Cardinality(Committed) + 1
          BY <5>1, FS_AddElement
        <5> QED
          BY <1>2, <5>2
      <4>2. Cardinality(Committed \cup {e}) \in Nat
        BY <4>1, FS_CardinalityType
      <4>3. Cardinality(Committed') <= Cardinality(Committed \cup {e})
        BY <3>4, <4>1, FS_Subset
      <4> QED
        BY <1>2, <4>1, <4>2, <4>3
    <3>6. Bond * Cardinality(Committed') <= Bond * (Cardinality(Committed) + 1)
      BY <1>2, <3>5
    <3>7. Bond * (Cardinality(Committed) + 1) = Bond * Cardinality(Committed) + Bond
      BY <1>2
    <3>8. inFlight = Bond * Cardinality(Committed)
      BY <3>3 DEF Counted
    <3> QED
      BY <1>2, <3>2, <3>6, <3>7, <3>8
  <2> QED
    BY <2>2, <2>3
<1>5. ASSUME Stop
      PROVE  WithinStake'
  <2>1. Committed' = {} /\ Bond * 0 <= MaxAtRisk
    BY <1>2, <1>5, StopFilings
  <2> QED
    BY <2>1, FS_EmptySet DEF WithinStake, Bond
<1>6. ASSUME NEW e \in Events, Reserve(e)
      PROVE  WithinStake'
  BY <1>3, <1>6, ReserveFilings DEF Reserve
<1>7. overlapped' = overlapped \/ Stop \/ \E e \in Events : FetchAndDecide(e)
  BY FilingSteps DEF Idle, Spawn, DisputeSettled, FetchFails, SubmitOk, SubmitFails, Reserve,
                     pipeline, filer
<1> QED
  BY <1>3, <1>4, <1>5, <1>6, <1>7, FilingsMove

(***************************************************************************)
(* As long as no two filings overlapped, the bonds this process filed stay *)
(* within --max-stake-at-risk, for every cap below u64::MAX, at which the  *)
(* saturating sum of the check would hide the excess.                      *)
(***************************************************************************)
THEOREM CapHolds ==
  ASSUME MaxAtRisk < MaxU64
  PROVE  Spec => []CapHoldsUnlessOverlapping
<1> DEFINE Inv == \A e \in Events : Placed(e)
<1>1. Init => WithinStake
  <2> SUFFICES ASSUME Init PROVE WithinStake
    OBVIOUS
  <2>1. Committed = {}
    BY DEF Init, Committed, Filing
  <2>2. Bond * 0 <= MaxAtRisk
    BY BondIsNatural, FilingAssumption
  <2> QED
    BY <2>1, <2>2, FS_EmptySet DEF WithinStake
<1>2. TypeOK /\ Inv /\ Counted /\ WithinStake /\ [Next]_vars => WithinStake'
  BY CapNext
<1>3. WithinStake => CapHoldsUnlessOverlapping
  BY DEF WithinStake, Committed, CapHoldsUnlessOverlapping
<1> QED
  BY <1>1, <1>2, <1>3, TypeCorrect, PlacedInvariant, CountedInvariant, PTL DEF Spec

----------------------------------------------------------------------------
(* The order of events. *)

(* A row of places, in order: of the events taken, the channel, the one    *)
(* being sent and the unread lines.                                        *)
Spot(tk, q, h, fd, i) ==
  IF i <= Len(tk) THEN tk[i]
  ELSE IF i <= Len(tk) + Len(q) THEN q[i - Len(tk)]
  ELSE IF i = Len(tk) + Len(q) + 1 THEN h
  ELSE EventOf(fd[i - (Len(tk) + Len(q) + 1)])
Row(tk, q, h, fd) == tk \o q \o <<h>> \o [i \in DOMAIN fd |-> EventOf(fd[i])]

Place(i) == Spot(taken, queue, hand, feed, i)
Size == Len(taken) + Len(queue) + 1 + Len(feed)

(* Four sequences in a row. *)
LEMMA FourInARow ==
  ASSUME NEW S, NEW a \in Seq(S), NEW b \in Seq(S), NEW c \in Seq(S), NEW d \in Seq(S)
  PROVE  /\ DOMAIN (a \o b \o c \o d) = 1 .. Len(a) + Len(b) + Len(c) + Len(d)
         /\ \A i \in 1 .. Len(a) + Len(b) + Len(c) + Len(d) :
              (a \o b \o c \o d)[i] =
                IF i <= Len(a) THEN a[i]
                ELSE IF i <= Len(a) + Len(b) THEN b[i - Len(a)]
                ELSE IF i <= Len(a) + Len(b) + Len(c) THEN c[i - (Len(a) + Len(b))]
                ELSE d[i - (Len(a) + Len(b) + Len(c))]
<1> DEFINE ab == a \o b
           abc == ab \o c
           all == abc \o d
<1>1. ab \in Seq(S)
  BY ConcatProperties
<1>2. /\ Len(ab) = Len(a) + Len(b)
      /\ \A i \in 1 .. Len(a) + Len(b) : ab[i] = IF i <= Len(a) THEN a[i] ELSE b[i - Len(a)]
  BY ConcatProperties
<1> HIDE DEF ab
<1>3. abc \in Seq(S)
  BY <1>1, ConcatProperties
<1>4. /\ Len(abc) = Len(ab) + Len(c)
      /\ \A i \in 1 .. Len(ab) + Len(c) : abc[i] = IF i <= Len(ab) THEN ab[i] ELSE c[i - Len(ab)]
  BY <1>1, ConcatProperties
<1> HIDE DEF abc
<1>5. all \in Seq(S)
  BY <1>3, ConcatProperties
<1>6. /\ Len(all) = Len(abc) + Len(d)
      /\ \A i \in 1 .. Len(abc) + Len(d) : all[i] = IF i <= Len(abc) THEN abc[i] ELSE d[i - Len(abc)]
  BY <1>3, ConcatProperties
<1> HIDE DEF all
<1>7. DOMAIN all = 1 .. Len(all) /\ Len(a) \in Nat /\ Len(b) \in Nat /\ Len(c) \in Nat /\ Len(d) \in Nat
  BY <1>5, LenProperties
<1>8. ASSUME NEW i \in 1 .. Len(a) + Len(b) + Len(c) + Len(d)
      PROVE  all[i] = IF i <= Len(a) THEN a[i]
                      ELSE IF i <= Len(a) + Len(b) THEN b[i - Len(a)]
                      ELSE IF i <= Len(a) + Len(b) + Len(c) THEN c[i - (Len(a) + Len(b))]
                      ELSE d[i - (Len(a) + Len(b) + Len(c))]
  BY <1>2, <1>4, <1>6, <1>7
<1> QED
  BY <1>2, <1>4, <1>6, <1>7, <1>8 DEF all, abc, ab

(* A row, place by place. *)
LEMMA Spots ==
  ASSUME NEW tk \in Seq(Events), NEW q \in Seq(Events), NEW h \in Events \cup {NoEvent},
         NEW fd \in Seq(Lines)
  PROVE  /\ Len(tk) \in Nat /\ Len(q) \in Nat /\ Len(fd) \in Nat
         /\ DOMAIN Row(tk, q, h, fd) = 1 .. Len(tk) + Len(q) + 1 + Len(fd)
         /\ \A i \in 1 .. Len(tk) + Len(q) + 1 + Len(fd) :
              Row(tk, q, h, fd)[i] = Spot(tk, q, h, fd, i)
<1> DEFINE size == Len(tk) + Len(q) + 1 + Len(fd)
           S == Events \cup {NoEvent}
           d == [i \in DOMAIN fd |-> EventOf(fd[i])]
           c == <<h>>
<1>1. /\ tk \in Seq(S) /\ q \in Seq(S) /\ h \in S /\ fd \in Seq(Lines)
  OBVIOUS
<1>2. Len(tk) \in Nat /\ Len(q) \in Nat /\ Len(fd) \in Nat
  BY <1>1, LenProperties
<1>3. DOMAIN fd = 1 .. Len(fd) /\ \A i \in 1 .. Len(fd) : fd[i] \in Lines
  BY <1>1, LenProperties, ElementOfSeq
<1>4. \A i \in 1 .. Len(fd) : EventOf(fd[i]) \in S
  BY <1>3 DEF EventOf, Lines
<1>5. d \in Seq(S) /\ Len(d) = Len(fd) /\ \A i \in 1 .. Len(fd) : d[i] = EventOf(fd[i])
  BY <1>2, <1>3, <1>4
<1>6. c \in Seq(S) /\ Len(c) = 1 /\ c[1] = h
  BY <1>1
<1>7. Row(tk, q, h, fd) = tk \o q \o c \o d
  BY DEF Row
<1> HIDE DEF d, S, c
<1> DEFINE all == tk \o q \o c \o d
           length == Len(tk) + Len(q) + Len(c) + Len(d)
<1>8. tk \in Seq(S) /\ q \in Seq(S) /\ c \in Seq(S) /\ d \in Seq(S)
  BY <1>1, <1>5, <1>6
<1>9. /\ DOMAIN all = 1 .. length
      /\ \A i \in 1 .. length :
           all[i] = IF i <= Len(tk) THEN tk[i]
                    ELSE IF i <= Len(tk) + Len(q) THEN q[i - Len(tk)]
                    ELSE IF i <= Len(tk) + Len(q) + Len(c)
                    THEN c[i - (Len(tk) + Len(q))]
                    ELSE d[i - (Len(tk) + Len(q) + Len(c))]
  BY <1>8, FourInARow
<1>10. all = Row(tk, q, h, fd) /\ length = size
  BY <1>2, <1>5, <1>6, <1>7
<1> HIDE DEF all, length
<1>11. ASSUME NEW i \in 1 .. size PROVE Row(tk, q, h, fd)[i] = Spot(tk, q, h, fd, i)
  <2>1. Len(c) = 1 /\ c[1] = h /\ \A j \in 1 .. Len(fd) : d[j] = EventOf(fd[j])
    BY <1>5, <1>6
  <2>2. i \in 1 .. length /\ i \in 1 .. Len(tk) + Len(q) + 1 + Len(fd)
    BY <1>10, <1>11
  <2>3. Row(tk, q, h, fd)[i] = IF i <= Len(tk) THEN tk[i]
                        ELSE IF i <= Len(tk) + Len(q) THEN q[i - Len(tk)]
                        ELSE IF i <= Len(tk) + Len(q) + 1
                        THEN c[i - (Len(tk) + Len(q))]
                        ELSE d[i - (Len(tk) + Len(q) + 1)]
    BY <1>9, <1>10, <2>1, <2>2
  <2>4. CASE i <= Len(tk) + Len(q)
    BY <1>2, <2>2, <2>3, <2>4 DEF Spot
  <2>5. CASE i = Len(tk) + Len(q) + 1
    BY <1>2, <2>1, <2>3, <2>5 DEF Spot
  <2>6. CASE i > Len(tk) + Len(q) + 1
    <3>1. i - (Len(tk) + Len(q) + 1) \in 1 .. Len(fd)
      BY <1>2, <2>2, <2>6
    <3> QED
      BY <1>2, <2>1, <2>2, <2>3, <2>6, <3>1 DEF Spot
  <2> QED
    BY <1>2, <2>2, <2>4, <2>5, <2>6
<1> QED
  BY <1>2, <1>9, <1>10, <1>11
(* The pipeline, place by place, before and after a step.                  *)
LEMMA Places ==
  ASSUME TypeOK
  PROVE  /\ Len(taken) \in Nat /\ Len(queue) \in Nat /\ Len(feed) \in Nat
         /\ DOMAIN InPipeline = 1 .. Size
         /\ \A i \in 1 .. Size : InPipeline[i] = Place(i)
<1>1. InPipeline = Row(taken, queue, hand, feed)
  BY DEF InPipeline, Row
<1>2. /\ taken \in Seq(Events) /\ queue \in Seq(Events) /\ feed \in Seq(Lines)
      /\ hand \in Events \cup {NoEvent}
  BY DEF TypeOK
<1> QED
  BY <1>1, <1>2, Spots DEF Size, Place

(* The same in the next state. *)
LEMMA PlacesNext ==
  ASSUME TypeOK'
  PROVE  /\ Len(taken') \in Nat /\ Len(queue') \in Nat /\ Len(feed') \in Nat
         /\ DOMAIN InPipeline' = 1 .. Size'
         /\ \A i \in 1 .. Size' : InPipeline'[i] = Place(i)'
<1>1. InPipeline' = Row(taken', queue', hand', feed')
  BY DEF InPipeline, Row
<1>2. /\ taken' \in Seq(Events) /\ queue' \in Seq(Events) /\ feed' \in Seq(Lines)
      /\ hand' \in Events \cup {NoEvent}
  BY DEF TypeOK
<1> QED
  BY <1>1, <1>2, Spots DEF Size, Place

(* In each place there is an event or none. *)
LEMMA PipeTyped ==
  ASSUME TypeOK, NEW i \in DOMAIN InPipeline
  PROVE  InPipeline[i] \in Events \cup {NoEvent}
<1>1. /\ Len(taken) \in Nat /\ Len(queue) \in Nat /\ Len(feed) \in Nat
      /\ i \in 1 .. Size /\ InPipeline[i] = Place(i)
  BY Places
<1>2. /\ \A j \in 1 .. Len(taken) : taken[j] \in Events
      /\ \A j \in 1 .. Len(queue) : queue[j] \in Events
      /\ \A j \in 1 .. Len(feed) : feed[j] \in Lines
      /\ hand \in Events \cup {NoEvent}
  BY ElementOfSeq DEF TypeOK
<1>3. \A j \in 1 .. Len(feed) : EventOf(feed[j]) \in Events \cup {NoEvent}
  BY <1>2 DEF EventOf, Lines
<1>4. CASE i <= Len(taken) + Len(queue)
  BY <1>1, <1>2, <1>4 DEF Place, Spot, Size
<1>5. CASE i = Len(taken) + Len(queue) + 1
  BY <1>1, <1>2, <1>5 DEF Place, Spot
<1>6. CASE i > Len(taken) + Len(queue) + 1
  <2>1. i - (Len(taken) + Len(queue) + 1) \in 1 .. Len(feed)
    BY <1>1, <1>6 DEF Size
  <2> QED
    BY <1>1, <1>3, <1>6, <2>1 DEF Place, Spot
<1> QED
  BY <1>1, <1>4, <1>5, <1>6 DEF Size

(* Who is in the pipeline, and who is ahead of whom.                       *)
InPipe(e) == e \in ToSet(InPipeline)
Ahead(e, f) == \E i, j \in DOMAIN InPipeline : i < j /\ InPipeline[i] = e /\ InPipeline[j] = f

(* Both, by places. *)
LEMMA PipePlaces ==
  ASSUME TypeOK, NEW e, NEW f
  PROVE  /\ InPipe(e) <=> \E i \in 1 .. Size : Place(i) = e
         /\ Ahead(e, f) <=> \E i, j \in 1 .. Size : i < j /\ Place(i) = e /\ Place(j) = f
<1> HIDE DEF Place, Size
<1>1. InPipe(e) <=> \E i \in DOMAIN InPipeline : InPipeline[i] = e
  BY DEF InPipe, ToSet
<1> QED
  BY <1>1, Places DEF Ahead

(* And in the next state. *)
LEMMA PipePlacesNext ==
  ASSUME TypeOK', NEW e, NEW f
  PROVE  /\ InPipe(e)' <=> \E i \in 1 .. Size' : Place(i)' = e
         /\ Ahead(e, f)' <=> \E i, j \in 1 .. Size' : i < j /\ Place(i)' = e /\ Place(j)' = f
<1>1. InPipe(e)' <=> \E i \in DOMAIN InPipeline' : InPipeline'[i] = e
  BY DEF InPipe, ToSet
<1> QED
  BY <1>1, PlacesNext DEF Ahead

(* A step that keeps the pipeline's events and their order.                *)
KeepsOrder ==
  \A e, f \in Events : (InPipe(e)' <=> InPipe(e)) /\ (Ahead(e, f)' => Ahead(e, f))

(* It is one that only moves them, none past another.                      *)
LEMMA MovesKeepOrder ==
  ASSUME TypeOK, TypeOK', NEW from,
         \A i \in 1 .. Size' : Place(i)' \in Events =>
           from[i] \in 1 .. Size /\ Place(from[i]) = Place(i)',
         \A i, j \in 1 .. Size' : i < j /\ Place(i)' \in Events /\ Place(j)' \in Events
           => from[i] < from[j],
         \A i \in 1 .. Size : Place(i) \in Events => \E j \in 1 .. Size' : Place(j)' = Place(i)
  PROVE  KeepsOrder
<1> HIDE DEF Place, Size
<1>1. ASSUME NEW e \in Events PROVE InPipe(e)' <=> InPipe(e)
  <2>1. InPipe(e)' <=> \E i \in 1 .. Size' : Place(i)' = e
    BY PipePlacesNext
  <2>2. InPipe(e) <=> \E i \in 1 .. Size : Place(i) = e
    BY PipePlaces
  <2>3. ASSUME NEW i \in 1 .. Size', Place(i)' = e PROVE InPipe(e)
    BY <1>1, <2>2, <2>3
  <2>4. ASSUME NEW i \in 1 .. Size, Place(i) = e PROVE InPipe(e)'
    BY <1>1, <2>1, <2>4
  <2> QED
    BY <2>1, <2>2, <2>3, <2>4
<1>2. ASSUME NEW e \in Events, NEW f \in Events, Ahead(e, f)' PROVE Ahead(e, f)
  <2>1. PICK i \in 1 .. Size', j \in 1 .. Size' : i < j /\ Place(i)' = e /\ Place(j)' = f
    BY <1>2, PipePlacesNext
  <2>2. /\ from[i] \in 1 .. Size /\ from[j] \in 1 .. Size /\ from[i] < from[j]
        /\ Place(from[i]) = e /\ Place(from[j]) = f
    BY <1>2, <2>1
  <2> QED
    BY <2>2, PipePlaces
<1> QED
  BY <1>1, <1>2 DEF KeepsOrder

(* Reading a line closes the gap before it. *)
LEMMA ReadKeepsOrder ==
  ASSUME TypeOK, TypeOK', ReadLog
  PROVE  KeepsOrder
<1> DEFINE n == Len(taken) + Len(queue)
           k == Len(feed)
           from == [i \in Nat |-> IF i <= n THEN i ELSE i + 1]
<1>1. /\ hand = NoEvent /\ feed # <<>> /\ hand' = Parsed(Head(feed)) /\ feed' = Tail(feed)
      /\ UNCHANGED <<taken, queue>> /\ feed \in Seq(Lines)
  BY DEF ReadLog, pipeline, TypeOK
<1>2. Len(taken) \in Nat /\ Len(queue) \in Nat /\ k \in Nat
  BY Places
<1>3. /\ Head(feed) = feed[1] /\ Head(feed) \in Lines /\ k > 0 /\ Len(feed') = k - 1
      /\ \A i \in 1 .. k - 1 : feed'[i] = feed[i + 1]
  <2>1. Head(feed) \in Lines /\ Len(Tail(feed)) = Len(feed) - 1
        /\ \A i \in 1 .. Len(Tail(feed)) : Tail(feed)[i] = feed[i + 1]
    BY <1>1, HeadTailProperties
  <2>2. Len(feed) # 0
    BY <1>1, EmptySeq
  <2>3. Head(feed) = feed[1]
    BY <1>1
  <2> QED
    BY <1>1, <1>2, <2>1, <2>2, <2>3
<1>4. hand' = EventOf(feed[1])
  BY <1>1, <1>3 DEF Parsed, EventOf, Lines, Ignored, Malformed
<1>5. Size = n + 1 + k /\ Size' = n + k
  BY <1>1, <1>2, <1>3 DEF Size
<1>6. ASSUME NEW i \in 1 .. n
      PROVE  Place(i)' = Place(i)
  BY <1>1, <1>2 DEF Place, Spot
<1>7. Place(n + 1) = NoEvent
  BY <1>1, <1>2 DEF Place, Spot
<1>8. ASSUME NEW i \in n + 1 .. n + k
      PROVE  Place(i)' = Place(i + 1)
  <2>1. Place(i + 1) = EventOf(feed[(i + 1) - (n + 1)])
    BY <1>2 DEF Place, Spot
  <2>2. Place(i)' = IF i = n + 1 THEN hand' ELSE EventOf(feed'[i - (n + 1)])
    BY <1>1, <1>2 DEF Place, Spot
  <2>3. CASE i = n + 1
    <3>1. (i + 1) - (n + 1) = 1
      BY <1>2, <2>3
    <3> QED
      BY <1>4, <2>1, <2>2, <2>3, <3>1
  <2>4. CASE i # n + 1
    <3>1. i - (n + 1) \in 1 .. k - 1 /\ (i - (n + 1)) + 1 = (i + 1) - (n + 1)
      BY <1>2, <2>4
    <3>2. feed'[i - (n + 1)] = feed[(i + 1) - (n + 1)]
      BY <1>3, <3>1
    <3> QED
      BY <2>1, <2>2, <2>4, <3>2
  <2> QED
    BY <2>3, <2>4
<1>9. n \in Nat /\ NoEvent \notin Events
  BY <1>2, WatcherAssumption
<1> HIDE DEF n, k, Place, Size
<1>10. \A i \in 1 .. Size' : from[i] \in 1 .. Size /\ Place(from[i]) = Place(i)'
  BY <1>2, <1>5, <1>6, <1>8, <1>9
<1>11. \A i, j \in 1 .. Size' : i < j => from[i] < from[j]
  BY <1>2, <1>5, <1>9
<1>12. ASSUME NEW i \in 1 .. Size, Place(i) \in Events
       PROVE  \E j \in 1 .. Size' : Place(j)' = Place(i)
  <2>1. CASE i <= n
    BY <1>2, <1>5, <1>6, <1>9, <2>1
  <2>2. CASE i > n + 1
    <3>1. i - 1 \in n + 1 .. n + k /\ (i - 1) + 1 = i
      BY <1>2, <1>5, <1>9, <2>2
    <3>2. Place(i - 1)' = Place(i)
      BY <1>8, <3>1
    <3>3. i - 1 \in 1 .. Size'
      BY <1>2, <1>5, <1>9, <3>1
    <3> QED
      BY <3>2, <3>3
  <2> QED
    BY <1>5, <1>7, <1>9, <1>12, <2>1, <2>2
<1> QED
  BY <1>10, <1>11, <1>12, MovesKeepOrder

(* Sending leaves a gap behind. *)
LEMMA SendKeepsOrder ==
  ASSUME TypeOK, TypeOK', Send
  PROVE  KeepsOrder
<1> DEFINE n == Len(taken) + Len(queue) + 1
           k == Len(feed)
           from == [i \in Nat |-> IF i <= n THEN i ELSE i - 1]
<1>1. /\ queue' = Append(queue, hand) /\ hand' = NoEvent /\ UNCHANGED <<taken, feed>>
      /\ hand \in Events /\ queue \in Seq(Events)
  BY DEF Send, TypeOK
<1>2. Len(taken) \in Nat /\ Len(queue) \in Nat /\ k \in Nat
  BY Places
<1>3. /\ Len(queue') = Len(queue) + 1
      /\ \A i \in 1 .. Len(queue) : queue'[i] = queue[i]
      /\ queue'[Len(queue) + 1] = hand
  BY <1>1, AppendProperties
<1>4. Size = n + k /\ Size' = n + 1 + k
  BY <1>1, <1>2, <1>3 DEF Size
<1>5. ASSUME NEW i \in 1 .. n
      PROVE  Place(i)' = Place(i)
  <2>1. CASE i <= Len(taken)
    BY <1>1, <1>2, <2>1 DEF Place, Spot
  <2>2. CASE i > Len(taken)
    <3>1. i - Len(taken) \in 1 .. Len(queue) + 1 /\ ~(i <= Len(taken))
          /\ (i - Len(taken) = Len(queue) + 1 <=> i = n)
          /\ (i <= Len(taken) + Len(queue) <=> i # n)
      BY <1>2, <2>2
    <3>2. Place(i)' = queue'[i - Len(taken)]
      BY <1>1, <1>2, <1>3, <3>1 DEF Place, Spot
    <3>3. Place(i) = IF i # n THEN queue[i - Len(taken)] ELSE hand
      BY <1>2, <3>1 DEF Place, Spot
    <3> QED
      BY <1>2, <1>3, <3>1, <3>2, <3>3
  <2> QED
    BY <1>2, <2>1, <2>2
<1>6. ASSUME NEW i, i = n + 1
      PROVE  Place(i)' = NoEvent
  <2>1. i = Len(taken') + Len(queue') + 1 /\ ~(i <= Len(taken') + Len(queue')) /\ ~(i <= Len(taken'))
    BY <1>1, <1>2, <1>3, <1>6
  <2> QED
    BY <1>1, <2>1 DEF Place, Spot
<1>7. ASSUME NEW i \in n + 1 .. n + k
      PROVE  Place(i + 1)' = Place(i)
  <2>1. Place(i) = EventOf(feed[i - n])
    BY <1>2 DEF Place, Spot
  <2>2. Place(i + 1)' = EventOf(feed[(i + 1) - (n + 1)])
    BY <1>1, <1>2, <1>3 DEF Place, Spot
  <2>3. i - n = (i + 1) - (n + 1)
    BY <1>2
  <2> QED
    BY <2>1, <2>2, <2>3
<1>8. n \in Nat /\ NoEvent \notin Events
  BY <1>2, WatcherAssumption
<1> HIDE DEF n, k, Place, Size
<1>9. ASSUME NEW i \in 1 .. Size', Place(i)' \in Events
      PROVE  i # n + 1 /\ from[i] \in 1 .. Size /\ Place(from[i]) = Place(i)'
  <2>1. i # n + 1
    BY <1>6, <1>8, <1>9
  <2>2. CASE i <= n
    BY <1>2, <1>4, <1>5, <1>8, <2>2
  <2>3. CASE i > n + 1
    <3>1. i - 1 \in n + 1 .. n + k /\ (i - 1) + 1 = i /\ from[i] = i - 1
      BY <1>2, <1>4, <1>8, <2>3
    <3>2. Place(i)' = Place(i - 1)
      BY <1>7, <3>1
    <3> QED
      BY <1>2, <1>4, <1>8, <2>1, <3>1, <3>2
  <2> QED
    BY <1>8, <2>1, <2>2, <2>3
<1>10. \A i, j \in 1 .. Size' : i < j /\ i # n + 1 /\ j # n + 1 => from[i] < from[j]
  BY <1>2, <1>4, <1>8
<1>11. ASSUME NEW i \in 1 .. Size
       PROVE  \E j \in 1 .. Size' : Place(j)' = Place(i)
  <2>1. CASE i <= n
    BY <1>2, <1>4, <1>5, <1>8, <2>1
  <2>2. CASE i > n
    <3>1. i \in n + 1 .. n + k /\ i + 1 \in 1 .. Size'
      BY <1>2, <1>4, <1>8, <2>2
    <3> QED
      BY <1>7, <3>1
  <2> QED
    BY <1>8, <2>1, <2>2
<1> HIDE DEF from
<1> QED
  BY <1>9, <1>10, <1>11, MovesKeepOrder

(* Taking an event leaves every event where it was. *)
LEMMA SpawnKeepsOrder ==
  ASSUME TypeOK, TypeOK', Spawn
  PROVE  KeepsOrder
<1> DEFINE n == Len(taken) + Len(queue)
           from == [i \in Nat |-> i]
<1>1. /\ queue # <<>> /\ queue' = Tail(queue) /\ taken' = Append(taken, Head(queue))
      /\ UNCHANGED <<hand, feed>> /\ queue \in Seq(Events) /\ taken \in Seq(Events)
  BY DEF Spawn, pump, TypeOK
<1>2. Len(taken) \in Nat /\ Len(queue) \in Nat /\ Len(feed) \in Nat
  BY Places
<1>3. /\ Head(queue) = queue[1] /\ Head(queue) \in Events /\ Len(queue) > 0
      /\ Len(queue') = Len(queue) - 1
      /\ \A i \in 1 .. Len(queue) - 1 : queue'[i] = queue[i + 1]
  <2>1. Head(queue) \in Events /\ Len(Tail(queue)) = Len(queue) - 1
        /\ \A i \in 1 .. Len(Tail(queue)) : Tail(queue)[i] = queue[i + 1]
    BY <1>1, HeadTailProperties
  <2>2. Len(queue) # 0
    BY <1>1, EmptySeq
  <2>3. Head(queue) = queue[1]
    BY <1>1
  <2> QED
    BY <1>1, <1>2, <2>1, <2>2, <2>3
<1>4. /\ Len(taken') = Len(taken) + 1
      /\ \A i \in 1 .. Len(taken) : taken'[i] = taken[i]
      /\ taken'[Len(taken) + 1] = queue[1]
  BY <1>1, <1>3, AppendProperties
<1>5. Size' = Size /\ Size \in Nat
  BY <1>1, <1>2, <1>3, <1>4 DEF Size
<1>6. ASSUME NEW i \in 1 .. Size
      PROVE  Place(i)' = Place(i)
  <2>1. CASE i <= Len(taken)
    BY <1>2, <1>4, <2>1 DEF Place, Spot
  <2>2. CASE i = Len(taken) + 1
    BY <1>2, <1>3, <1>4, <2>2 DEF Place, Spot
  <2>3. CASE i > Len(taken) + 1 /\ i <= n
    <3>1. /\ i - (Len(taken) + 1) \in 1 .. Len(queue) - 1
          /\ (i - (Len(taken) + 1)) + 1 = i - Len(taken)
      BY <1>2, <2>3
    <3>2. queue'[i - (Len(taken) + 1)] = queue[i - Len(taken)]
      BY <1>3, <3>1
    <3>3. Place(i) = queue[i - Len(taken)]
      BY <1>2, <2>3 DEF Place, Spot
    <3>4. Place(i)' = queue'[i - (Len(taken) + 1)]
      BY <1>2, <1>3, <1>4, <2>3 DEF Place, Spot
    <3> QED
      BY <3>2, <3>3, <3>4
  <2>4. CASE i > n
    <3>1. Len(taken') + Len(queue') = n
      BY <1>2, <1>3, <1>4
    <3>2. Len(taken') <= n
      BY <1>2, <1>3, <1>4
    <3> QED
      BY <1>1, <1>2, <2>4, <3>1, <3>2 DEF Place, Spot
  <2> QED
    BY <1>2, <2>1, <2>2, <2>3, <2>4
<1> HIDE DEF Place, Size
<1>7. \A i \in 1 .. Size : from[i] = i
  BY <1>5
<1> HIDE DEF from
<1> QED
  BY <1>5, <1>6, <1>7, MovesKeepOrder

(* Delivery of a transaction's lines, behind everything in the pipeline.   *)
LEMMA DeliverPlaces ==
  ASSUME TypeOK, NEW x \in Transactions, Emit(x), feed' = feed \o LogsOf[x]
  PROVE  /\ Size \in Nat /\ Len(LogsOf[x]) \in Nat /\ Size' = Size + Len(LogsOf[x])
         /\ \A i \in 1 .. Size : Place(i)' = Place(i)
         /\ \A i \in 1 .. Len(LogsOf[x]) : \A j : j = Size + i => Place(j)' = EventOf(LogsOf[x][i])
<1> DEFINE log == LogsOf[x]
           n == Len(taken) + Len(queue) + 1
           k == Len(feed)
<1>1. feed \in Seq(Lines) /\ log \in Seq(Lines) /\ UNCHANGED <<taken, queue, hand>>
  BY WatcherAssumption DEF Emit, pipeline, TypeOK
<1>2. Len(taken) \in Nat /\ Len(queue) \in Nat /\ k \in Nat /\ Len(log) \in Nat
  BY <1>1, Places, LenProperties
<1>3. /\ Len(feed') = k + Len(log)
      /\ \A i \in 1 .. k + Len(log) : feed'[i] = IF i <= k THEN feed[i] ELSE log[i - k]
  BY <1>1, ConcatProperties
<1>4. Size = n + k /\ Size' = n + k + Len(log)
  <2>1. UNCHANGED <<taken, queue>> /\ Len(feed') = k + Len(log)
    BY <1>1, <1>3
  <2> HIDE DEF log
  <2> QED
    BY <1>2, <2>1 DEF Size
<1>5. ASSUME NEW i \in 1 .. Size
      PROVE  Place(i)' = Place(i)
  <2>1. CASE i <= n
    BY <1>1, <1>2, <2>1 DEF Place, Spot
  <2>2. CASE i > n
    <3>1. i - n \in 1 .. k
      BY <1>2, <1>4, <2>2
    <3>2. feed'[i - n] = feed[i - n]
      BY <1>2, <1>3, <3>1
    <3> QED
      BY <1>1, <1>2, <2>2, <3>2 DEF Place, Spot
  <2> QED
    BY <1>2, <1>4, <2>1, <2>2
<1>6. ASSUME NEW i \in 1 .. Len(log), NEW j, j = Size + i
      PROVE  Place(j)' = EventOf(log[i])
  <2>1. j \in Nat /\ j > n /\ j - n = k + i /\ j - n \in 1 .. k + Len(log) /\ (j - n) - k = i
    BY <1>2, <1>4, <1>6
  <2>2. feed'[j - n] = log[i]
    BY <1>2, <1>3, <2>1
  <2>3. UNCHANGED <<taken, queue, hand>>
    BY <1>1
  <2>4. /\ ~(j <= Len(taken)) /\ ~(j <= Len(taken) + Len(queue))
        /\ j # Len(taken) + Len(queue) + 1
    BY <1>2, <2>1
  <2>5. Place(j)' = EventOf(feed'[j - n])
    BY <2>3, <2>4 DEF Place, Spot
  <2> QED
    BY <2>2, <2>5
<1> QED
  BY <1>2, <1>4, <1>5, <1>6

(* So the transaction's events follow those that were there, in the order  *)
(* of its lines, and no other event is new.                                *)
LEMMA DeliverOrder ==
  ASSUME TypeOK, TypeOK', NEW x \in Transactions, Emit(x), feed' = feed \o LogsOf[x]
  PROVE  /\ \A e \in Events : InPipe(e)' <=> InPipe(e) \/ LoggedIn(x, e)
         /\ \A e, f \in Events : Ahead(e, f)' =>
              \/ Ahead(e, f)
              \/ InPipe(e) /\ LoggedIn(x, f)
              \/ \E i, j \in DOMAIN LogsOf[x] :
                   i < j /\ Announces(LogsOf[x][i], e) /\ Announces(LogsOf[x][j], f)
<1> DEFINE log == LogsOf[x]
           k == Len(log)
           s == Size
<1>1. /\ s \in Nat /\ k \in Nat /\ Size' = s + k
      /\ \A i \in 1 .. s : Place(i)' = Place(i)
      /\ \A i \in 1 .. k : \A j : j = s + i => Place(j)' = EventOf(log[i])
  BY DeliverPlaces
<1>2. DOMAIN log = 1 .. k /\ \A i \in 1 .. k : log[i] \in Lines
  <2>1. log \in Seq(Lines)
    BY WatcherAssumption
  <2> QED
    BY <2>1, LenProperties, ElementOfSeq
<1>3. \A e \in Events : \A i \in 1 .. k : EventOf(log[i]) = e <=> Announces(log[i], e)
  BY <1>2, WatcherAssumption DEF EventOf, Announces
<1> HIDE DEF log, k
<1>4. \A e : /\ InPipe(e) <=> \E i \in 1 .. s : Place(i) = e
             /\ InPipe(e)' <=> \E i \in 1 .. Size' : Place(i)' = e
  BY PipePlaces, PipePlacesNext
<1>5. \A e, f : /\ Ahead(e, f) <=> \E i, j \in 1 .. s : i < j /\ Place(i) = e /\ Place(j) = f
                /\ Ahead(e, f)' <=> \E i, j \in 1 .. Size' : i < j /\ Place(i)' = e /\ Place(j)' = f
  BY PipePlaces, PipePlacesNext
<1>6. \A e : LoggedIn(x, e) <=> \E i \in 1 .. k : Announces(log[i], e)
  BY <1>2 DEF LoggedIn, log
<1> HIDE DEF s, Place, Size
<1>7. ASSUME NEW i \in 1 .. Size'
      PROVE  \/ i \in 1 .. s /\ Place(i)' = Place(i)
             \/ i > s /\ i - s \in 1 .. k /\ Place(i)' = EventOf(log[i - s])
  <2>1. CASE i <= s
    BY <1>1, <2>1
  <2>2. CASE i > s
    <3>1. i - s \in 1 .. k /\ i = s + (i - s)
      BY <1>1, <2>2
    <3> QED
      BY <1>1, <2>2, <3>1
  <2> QED
    BY <1>1, <2>1, <2>2
<1>8. ASSUME NEW e \in Events, InPipe(e)'
      PROVE  InPipe(e) \/ LoggedIn(x, e)
  <2>1. PICK i \in 1 .. Size' : Place(i)' = e
    BY <1>4, <1>8
  <2> QED
    BY <1>3, <1>4, <1>6, <1>7, <2>1
<1>9. ASSUME NEW e \in Events, InPipe(e)
      PROVE  InPipe(e)'
  <2>1. PICK i \in 1 .. s : Place(i) = e
    BY <1>4, <1>9
  <2>2. i \in 1 .. Size' /\ Place(i)' = e
    BY <1>1, <2>1
  <2> QED
    BY <1>4, <2>2
<1>10. ASSUME NEW e \in Events, LoggedIn(x, e)
       PROVE  InPipe(e)'
  <2>1. PICK i \in 1 .. k : EventOf(log[i]) = e
    BY <1>3, <1>6, <1>10
  <2>2. s + i \in 1 .. Size'
    BY <1>1, <2>1
  <2>3. PICK j \in 1 .. Size' : j = s + i
    BY <2>2
  <2>4. Place(j)' = e
    BY <1>1, <2>1, <2>3
  <2> QED
    BY <1>4, <2>4
<1>11. ASSUME NEW e \in Events, NEW f \in Events, Ahead(e, f)'
       PROVE  \/ Ahead(e, f)
              \/ InPipe(e) /\ LoggedIn(x, f)
              \/ \E i, j \in 1 .. k : i < j /\ Announces(log[i], e) /\ Announces(log[j], f)
  <2>1. PICK i \in 1 .. Size', j \in 1 .. Size' : i < j /\ Place(i)' = e /\ Place(j)' = f
    BY <1>5, <1>11
  <2>2. CASE i \in 1 .. s /\ j \in 1 .. s
    BY <1>1, <1>5, <2>1, <2>2
  <2>3. CASE i \in 1 .. s /\ j > s
    <3>1. Place(i) = e
      BY <1>1, <2>1, <2>3
    <3>2. j - s \in 1 .. k /\ EventOf(log[j - s]) = f
      BY <1>1, <1>7, <2>1, <2>3
    <3> QED
      BY <1>3, <1>4, <1>6, <2>3, <3>1, <3>2
  <2>4. CASE i > s /\ j > s
    <3>1. i - s \in 1 .. k /\ EventOf(log[i - s]) = e /\ j - s \in 1 .. k /\ EventOf(log[j - s]) = f
      BY <1>1, <1>7, <2>1, <2>4
    <3>2. i - s < j - s
      BY <1>1, <2>1
    <3> QED
      BY <1>3, <3>1, <3>2
  <2> QED
    BY <1>1, <2>1, <2>2, <2>3, <2>4
<1> QED
  BY <1>2, <1>8, <1>9, <1>10, <1>11 DEF log

(* The invariant, event by event. *)
WholeIn(x) == \A e, f \in Events : LoggedIn(x, e) /\ LoggedIn(x, f) /\ InPipe(e) => InPipe(f)
OrderInv ==
  /\ \A e \in Events : InPipe(e) => Seen(e)
  /\ \A e, f \in Events : Ahead(e, f) => LoggedBefore(e, f)
  /\ \A x \in Transactions : WholeIn(x)

(* What was published keeps its place. *)
LEMMA PublishedStays ==
  ASSUME TypeOK, [Next]_vars
  PROVE  /\ published \in Seq(Transactions) /\ DOMAIN published \subseteq DOMAIN published'
         /\ \A y \in DOMAIN published : published'[y] = published[y]
<1>1. published \in Seq(Transactions)
  BY DEF TypeOK
<1>2. ASSUME NEW x \in Transactions, Emit(x)
      PROVE  /\ DOMAIN published \subseteq DOMAIN published'
             /\ \A y \in DOMAIN published : published'[y] = published[y]
  <2>1. published' = Append(published, x)
    BY <1>2 DEF Emit
  <2>2. /\ published' \in Seq(Transactions) /\ Len(published') = Len(published) + 1
        /\ Len(published) \in Nat
        /\ \A y \in 1 .. Len(published) : published'[y] = published[y]
    BY <1>1, <2>1, AppendProperties, LenProperties
  <2>3. DOMAIN published = 1 .. Len(published) /\ DOMAIN published' = 1 .. Len(published')
    BY <1>1, <2>2, LenProperties
  <2> QED
    BY <2>2, <2>3
<1>3. (\E x \in Transactions : Emit(x)) \/ published' = published
  BY DEF Next, vars, chain, Connect, ConnectFails, BackoffElapses, Disconnect, StreamEnds, ReadLog,
         Send, Spawn, Stop, Start, DisputeSettled, FetchFails, FetchAndDecide, SubmitOk, SubmitFails,
         Reserve
<1> QED
  BY <1>1, <1>2, <1>3

(* So whatever was logged before something else stays so. *)
LEMMA LoggedBeforeStays ==
  ASSUME TypeOK, [Next]_vars, NEW e, NEW f, LoggedBefore(e, f)
  PROVE  LoggedBefore(e, f)'
<1>1. PICK x \in DOMAIN published, y \in DOMAIN published :
        \E i \in DOMAIN LogsOf[published[x]], j \in DOMAIN LogsOf[published[y]] :
          /\ Announces(LogsOf[published[x]][i], e) /\ Announces(LogsOf[published[y]][j], f)
          /\ x < y \/ (x = y /\ i < j)
  BY DEF LoggedBefore
<1>2. /\ x \in DOMAIN published' /\ y \in DOMAIN published'
      /\ published'[x] = published[x] /\ published'[y] = published[y]
  BY PublishedStays
<1> QED
  BY <1>1, <1>2 DEF LoggedBefore

(* A step that keeps events and their order keeps the invariant. *)
LEMMA OrderKept ==
  ASSUME TypeOK, [Next]_vars, OrderInv, KeepsOrder
  PROVE  OrderInv'
<1>1. ASSUME NEW e \in Events, InPipe(e)' PROVE Seen(e)'
  BY <1>1, SeenStays DEF OrderInv, KeepsOrder
<1>2. ASSUME NEW e \in Events, NEW f \in Events, Ahead(e, f)' PROVE LoggedBefore(e, f)'
  BY <1>2, LoggedBeforeStays DEF OrderInv, KeepsOrder
<1>3. ASSUME NEW x \in Transactions PROVE WholeIn(x)'
  BY DEF OrderInv, KeepsOrder, WholeIn, LoggedIn
<1> QED
  BY <1>1, <1>2, <1>3 DEF OrderInv

(* So does one that leaves the pipeline alone. *)
LEMMA SamePipeline ==
  ASSUME UNCHANGED <<taken, queue, hand, feed>>
  PROVE  KeepsOrder
<1>1. InPipeline' = InPipeline
  BY DEF InPipeline
<1> QED
  BY <1>1 DEF KeepsOrder, InPipe, Ahead

(* A transaction is emitted last, and was not seen before. *)
LEMMA EmitOrder ==
  ASSUME TypeOK, TypeOK', [Next]_vars, OrderInv, NEW x \in Transactions, Emit(x)
  PROVE  OrderInv'
<1>1. x \notin ToSet(published) /\ published' = Append(published, x)
      /\ published \in Seq(Transactions)
  BY DEF Emit, TypeOK
<1>2. CASE UNCHANGED <<taken, queue, hand, feed>>
  BY <1>2, SamePipeline, OrderKept
<1>3. CASE feed' = feed \o LogsOf[x]
  <2> DEFINE last == Len(published) + 1
  <2>1. /\ last \in DOMAIN published' /\ published'[last] = x
        /\ Len(published) \in Nat /\ DOMAIN published = 1 .. Len(published)
    <3>1. /\ published' \in Seq(Transactions) /\ Len(published') = Len(published) + 1
          /\ published'[Len(published) + 1] = x
      BY <1>1, AppendProperties
    <3> QED
      BY <1>1, <3>1, LenProperties
  <2>2. x \in ToSet(published')
    <3> HIDE DEF last
    <3> QED BY <2>1 DEF ToSet
  <2>3. ASSUME NEW e \in Events, InPipe(e)' PROVE Seen(e)'
    BY <1>3, <2>2, <2>3, DeliverOrder, SeenStays DEF OrderInv, Seen, LoggedIn
  <2>4. ASSUME NEW e \in Events, NEW f \in Events, InPipe(e), LoggedIn(x, f)
        PROVE  LoggedBefore(e, f)'
    <3>1. PICK y \in DOMAIN published : LoggedIn(published[y], e)
      BY <2>4 DEF OrderInv, Seen, ToSet
    <3>2. y \in DOMAIN published' /\ published'[y] = published[y] /\ y < last
      BY <2>1, PublishedStays
    <3>3. PICK i \in DOMAIN LogsOf[published'[y]] : Announces(LogsOf[published'[y]][i], e)
      BY <3>1, <3>2 DEF LoggedIn
    <3>4. PICK j \in DOMAIN LogsOf[published'[last]] : Announces(LogsOf[published'[last]][j], f)
      BY <2>1, <2>4 DEF LoggedIn
    <3> HIDE DEF last
    <3> QED
      BY <2>1, <3>2, <3>3, <3>4 DEF LoggedBefore
  <2>5. ASSUME NEW e \in Events, NEW f \in Events,
               NEW i \in DOMAIN LogsOf[x], NEW j \in DOMAIN LogsOf[x], i < j,
               Announces(LogsOf[x][i], e), Announces(LogsOf[x][j], f)
        PROVE  LoggedBefore(e, f)'
    <3> HIDE DEF last
    <3> QED
      BY <2>1, <2>5 DEF LoggedBefore
  <2>6. ASSUME NEW e \in Events, NEW f \in Events, Ahead(e, f)' PROVE LoggedBefore(e, f)'
    BY <1>3, <2>4, <2>5, <2>6, DeliverOrder, LoggedBeforeStays DEF OrderInv
  <2>7. ASSUME NEW y \in Transactions, NEW e \in Events, NEW f \in Events,
               LoggedIn(y, e), LoggedIn(y, f), InPipe(e)'
        PROVE  InPipe(f)'
    <3>1. CASE LoggedIn(x, e)
      <4>1. y = x
        BY <2>7, <3>1, LoggedOnce DEF LoggedIn
      <4> QED
        BY <1>3, <2>7, <4>1, DeliverOrder
    <3>2. CASE InPipe(e)
      BY <1>3, <2>7, <3>2, DeliverOrder DEF OrderInv, WholeIn
    <3> QED
      BY <1>3, <2>7, <3>1, <3>2, DeliverOrder
  <2>8. \A y \in Transactions : WholeIn(y)'
    BY <2>7 DEF WholeIn, LoggedIn
  <2> QED
    BY <2>3, <2>6, <2>8 DEF OrderInv
<1> QED
  BY <1>2, <1>3 DEF Emit, pipeline

(* A stop empties the pipeline. *)
LEMMA StopOrder ==
  ASSUME TypeOK', Stop
  PROVE  OrderInv'
<1>1. taken' = <<>> /\ queue' = <<>> /\ hand' = NoEvent /\ feed' = <<>>
  BY DEF Stop
<1>2. Size' = 1 /\ \A i \in 1 .. 1 : Place(i)' = NoEvent
  BY <1>1 DEF Size, Place, Spot
<1>3. NoEvent \notin Events
  BY WatcherAssumption
<1> HIDE DEF Size, Place
<1>4. ASSUME NEW e \in Events PROVE ~InPipe(e)' /\ \A f : ~Ahead(e, f)'
  BY <1>2, <1>3, PipePlacesNext
<1> QED
  BY <1>4 DEF OrderInv, WholeIn

(* Every step keeps the order. *)
LEMMA OrderNext ==
  ASSUME TypeOK, TypeOK', [Next]_vars, OrderInv
  PROVE  OrderInv'
<1>1. CASE UNCHANGED <<taken, queue, hand, feed>>
  BY <1>1, SamePipeline, OrderKept
<1>2. CASE ReadLog \/ Send \/ Spawn
  BY <1>2, ReadKeepsOrder, SendKeepsOrder, SpawnKeepsOrder, OrderKept
<1>3. \/ UNCHANGED <<taken, queue, hand, feed>>
      \/ ReadLog \/ Send \/ Spawn \/ Stop
      \/ \E x \in Transactions : Emit(x)
  BY DEF Next, vars, chain, pump, pipeline, Connect, ConnectFails, BackoffElapses, Disconnect,
         StreamEnds, Start, DisputeSettled, FetchFails, FetchAndDecide, SubmitOk, SubmitFails, Reserve
<1> QED
  BY <1>1, <1>2, <1>3, EmitOrder, StopOrder

(***************************************************************************)
(* Whatever is logged, dropped with a connection, malformed or waiting for *)
(* room in the channel, and however often the daemon restarts: events      *)
(* reach the tasks in the order in which they were logged, each once, and  *)
(* of a delivered transaction all of them.                                 *)
(***************************************************************************)
THEOREM EventsInOrder == Spec => []EventsFlowInOrder
<1>1. Init => OrderInv
  <2> SUFFICES ASSUME Init PROVE OrderInv
    OBVIOUS
  <2>1. TypeOK
    BY InitType
  <2>2. Size = 1 /\ Place(1) = NoEvent /\ NoEvent \notin Events
    BY WatcherAssumption DEF Init, Size, Place, Spot
  <2> HIDE DEF Size, Place
  <2>3. ASSUME NEW e \in Events PROVE ~InPipe(e) /\ \A f : ~Ahead(e, f)
    BY <2>1, <2>2, PipePlaces
  <2> QED
    BY <2>3 DEF OrderInv, WholeIn
<1>2. TypeOK /\ TypeOK' /\ OrderInv /\ [Next]_vars => OrderInv'
  BY OrderNext
<1>3. TypeOK /\ GroundsInv /\ OrderInv => EventsFlowInOrder
  <2> SUFFICES ASSUME TypeOK, GroundsInv, OrderInv PROVE EventsFlowInOrder
    OBVIOUS
  <2>1. \A i \in DOMAIN InPipeline : InPipeline[i] \in Events \cup {NoEvent}
    BY PipeTyped
  <2> QED
    BY <2>1 DEF EventsFlowInOrder, GroundsInv, OnItsWay, OrderInv, WholeIn, InPipe, Ahead, Seen
<1> QED
  BY <1>1, <1>2, <1>3, TypeCorrect, GroundsInvariant, PTL DEF Spec

----------------------------------------------------------------------------
(* The duty. *)

(* What the abstract variables stand for. *)
Stages == [e \in Events |-> Stage(e)]
Contradictions == {e \in Events : OutcomeOf[e] = "Mismatch"}
Disputed == {t \in Thoughts : disputes[t] # "none"}

(* What a step must do to the mapped state to be an abstract one. *)
LEMMA TakeMaps ==
  ASSUME NEW e \in Events, Stages[e] = "waiting",
         Stages' = [Stages EXCEPT ![e] = "working"], Disputed' = Disputed
  PROVE  Duty!Take(e)
  BY DEF Duty!Take, Stages, Stage, Disputed

(* Deciding to file, over a contradiction. *)
LEMMA FileMaps ==
  ASSUME NEW e \in Events, Stages[e] = "working", e \in Contradictions,
         Stages' = [Stages EXCEPT ![e] = "filing"], Disputed' = Disputed
  PROVE  Duty!File(e)
  BY DEF Duty!File, Stages, Stage, Disputed, Contradictions

(* Closing one that is worked on or being filed. *)
LEMMA CloseMaps ==
  ASSUME NEW e \in Events, Stages[e] \in {"working", "filing"},
         Stages' = [Stages EXCEPT ![e] = "closed"], Disputed' = Disputed
  PROVE  Duty!Close(e)
  BY DEF Duty!Close, Stages, Stage, Disputed

(* Accepting a filing, which disputes its thought or changes no dispute.   *)
LEMMA AcceptMaps ==
  ASSUME NEW e \in Events, Stages[e] = "filing",
         Stages' = [Stages EXCEPT ![e] = "closed"],
         Disputed' \in {Disputed, Disputed \cup {ThoughtOf[e]}}
  PROVE  Duty!Accept(e)
  BY DEF Duty!Accept, Stages, Stage, Disputed, About

(* Closing all that were taken, and no other. *)
LEMMA CrashMaps ==
  ASSUME Stages' = [e \in Events |-> IF Stages[e] = "waiting" THEN "waiting" ELSE "closed"],
         Disputed' = Disputed
  PROVE  Duty!Crash
  BY DEF Duty!Crash, Stages, Stage, Disputed

(* Nothing, where neither a stage nor a dispute changes. *)
LEMMA IdleMaps ==
  ASSUME Stages' = Stages, Disputed' = Disputed
  PROVE  UNCHANGED Duty!dvars
  BY DEF Duty!dvars, Stages, Stage, Disputed

(* The stage of a task that moves, and of the others.                      *)
LEMMA TaskMoves ==
  ASSUME TypeOK, NEW e \in Events, NEW to, task' = [task EXCEPT ![e] = to]
  PROVE  /\ Stages[e] = Stage(e)
         /\ Stages' = [Stages EXCEPT ![e] = Stage(e)']
         /\ task'[e] = to
<1>1. task'[e] = to /\ \A f \in Events \ {e} : task'[f] = task[f]
  BY DEF TypeOK
<1>2. \A f \in Events \ {e} : Stage(f)' = Stage(f)
  BY <1>1 DEF Stage
<1> QED
  BY <1>1, <1>2 DEF Stages

(* A task that ends without a dispute closes its event. *)
LEMMA TaskCloses ==
  ASSUME TypeOK, NEW e \in Events, task[e] \in {"fetching", "submitting"},
         task' = [task EXCEPT ![e] = "done"], disputes' = disputes
  PROVE  Duty!Close(e)
<1>1. Stage(e) \in {"working", "filing"} /\ Stages[e] = Stage(e)
  BY TaskMoves DEF Stage
<1>2. task'[e] = "done" /\ Stages' = [Stages EXCEPT ![e] = Stage(e)']
  BY TaskMoves
<1>3. Stage(e)' = "closed"
  BY <1>2 DEF Stage
<1>4. Disputed' = Disputed
  BY DEF Disputed
<1> QED
  BY <1>1, <1>2, <1>3, <1>4, CloseMaps

(* An event that leaves the channel has had no task: it is taken up once.  *)
LEMMA SpawnTakes ==
  ASSUME TypeOK, \A f \in Events : Placed(f), Spawn, NEW e, e = Head(queue)
  PROVE  e \in Events /\ Duty!Take(e)
<1>1. e \in Events /\ task[e] = "none"
  BY SpawnsAreFresh
<1>2. task' = [task EXCEPT ![e] = "fetching"] /\ disputes' = disputes
  BY DEF Spawn, chain
<1>3. /\ Stages[e] = Stage(e) /\ task'[e] = "fetching"
      /\ Stages' = [Stages EXCEPT ![e] = Stage(e)']
  BY <1>1, <1>2, TaskMoves
<1>4. Stage(e) = "waiting" /\ Stage(e)' = "working"
  BY <1>1, <1>3 DEF Stage
<1>5. Disputed' = Disputed
  BY <1>2 DEF Disputed
<1> QED
  BY <1>1, <1>3, <1>4, <1>5, TakeMaps

(* What decide wants filed is contradicted. *)
LEMMA DecisionFiles ==
  ASSUME TypeOK, NEW e \in Events, FetchAndDecide(e)
  PROVE  Duty!File(e) \/ Duty!Close(e)
<1>1. task[e] = "fetching" /\ disputes' = disputes
  BY DEF FetchAndDecide, chain
<1>2. CASE Decide(Strategy, OutcomeOf[e], AgentStake, BondMin, inFlight) = "File"
  <2>1. task' = [task EXCEPT ![e] = "submitting"]
    BY <1>2 DEF FetchAndDecide
  <2>2. e \in Contradictions
    BY <1>2, FiledOnlyOnMismatch DEF Grounds, Contradictions
  <2>3. /\ Stages[e] = Stage(e) /\ task'[e] = "submitting"
        /\ Stages' = [Stages EXCEPT ![e] = Stage(e)']
    BY <2>1, TaskMoves
  <2>4. Stage(e) = "working" /\ Stage(e)' = "filing" /\ Disputed' = Disputed
    BY <1>1, <2>3 DEF Stage, Disputed
  <2> QED
    BY <2>2, <2>3, <2>4, FileMaps
<1>3. CASE Decide(Strategy, OutcomeOf[e], AgentStake, BondMin, inFlight) # "File"
  <2>1. task' = [task EXCEPT ![e] = "done"]
    BY <1>3 DEF FetchAndDecide
  <2> QED
    BY <1>1, <2>1, TaskCloses
<1> QED
  BY <1>2, <1>3

(* An accepted submission disputes its thought, or changes no dispute.     *)
LEMMA SubmitAccepts ==
  ASSUME TypeOK, NEW e \in Events, SubmitOk(e)
  PROVE  Duty!Accept(e)
<1> DEFINE u == ThoughtOf[e]
<1>1. /\ task[e] = "submitting"
      /\ task' = [task EXCEPT ![e] = "reserving"]
      /\ disputes' = disputes \/ disputes' = [disputes EXCEPT ![u] = "open"]
  BY DEF SubmitOk
<1>2. u \in Thoughts
  BY WatcherAssumption
<1>3. disputes' = disputes => Disputed' = Disputed
  BY DEF Disputed
<1>4. disputes' = [disputes EXCEPT ![u] = "open"] => Disputed' = Disputed \cup {u}
  BY <1>2 DEF Disputed, TypeOK
<1>5. /\ Stages[e] = Stage(e) /\ task'[e] = "reserving"
      /\ Stages' = [Stages EXCEPT ![e] = Stage(e)']
  BY <1>1, TaskMoves
<1>6. Stage(e) = "filing" /\ Stage(e)' = "closed"
  BY <1>1, <1>5 DEF Stage
<1> QED
  BY <1>1, <1>3, <1>4, <1>5, <1>6, AcceptMaps

(* A stop closes what was taken, and takes nothing up again. *)
LEMMA StopCrashes ==
  ASSUME TypeOK, Stop
  PROVE  Duty!Crash
<1>1. /\ disputes' = disputes
      /\ task' = [e \in Events |->
                    IF task[e] \in {"fetching", "submitting", "reserving"} THEN "killed" ELSE task[e]]
  BY DEF Stop, chain
<1>2. ASSUME NEW e \in Events
      PROVE  Stage(e)' = IF Stage(e) = "waiting" THEN "waiting" ELSE "closed"
  BY <1>1 DEF Stage
<1>3. Disputed' = Disputed
  BY <1>1 DEF Disputed
<1>4. Stages' = [e \in Events |-> IF Stages[e] = "waiting" THEN "waiting" ELSE "closed"]
  BY <1>2 DEF Stages
<1> QED
  BY <1>3, <1>4, CrashMaps

(* Every step does its part of the duty, or none.                          *)
LEMMA DutyNext ==
  ASSUME TypeOK, \A e \in Events : Placed(e), [Next]_vars
  PROVE  [Duty!Next]_Duty!dvars
<1>1. CASE Idle
  <2>1. Stages' = Stages /\ Disputed' = Disputed
    BY <1>1 DEF Idle, Stages, Stage, Disputed
  <2> QED
    BY <2>1, IdleMaps
<1>2. ASSUME NEW t \in Thoughts, DisputeSettled(t)
      PROVE  [Duty!Next]_Duty!dvars
  <2>1. disputes[t] = "open" /\ disputes' = [disputes EXCEPT ![t] = "settled"] /\ task' = task
    BY <1>2 DEF DisputeSettled, pipeline
  <2>2. Stages' = Stages
    BY <2>1 DEF Stages, Stage
  <2>3. Disputed' = Disputed
    BY <2>1 DEF Disputed, TypeOK
  <2> QED
    BY <2>2, <2>3, IdleMaps
<1>3. ASSUME NEW e \in Events, Reserve(e)
      PROVE  [Duty!Next]_Duty!dvars
  <2>1. task[e] = "reserving" /\ task' = [task EXCEPT ![e] = "done"] /\ disputes' = disputes
    BY <1>3 DEF Reserve, chain
  <2>2. /\ Stages[e] = Stage(e) /\ task'[e] = "done"
        /\ Stages' = [Stages EXCEPT ![e] = Stage(e)']
    BY <2>1, TaskMoves
  <2>3. Stage(e) = "closed" /\ Stage(e)' = "closed"
    BY <2>1, <2>2 DEF Stage
  <2>4. Stages' = Stages /\ Disputed' = Disputed
    BY <2>1, <2>2, <2>3 DEF Stages, Disputed
  <2> QED
    BY <2>4, IdleMaps
<1>4. ASSUME NEW e \in Events, FetchFails(e) \/ SubmitFails(e)
      PROVE  [Duty!Next]_Duty!dvars
  <2>1. /\ task[e] \in {"fetching", "submitting"} /\ task' = [task EXCEPT ![e] = "done"]
        /\ disputes' = disputes
    BY <1>4 DEF FetchFails, SubmitFails, chain
  <2> QED
    BY <2>1, TaskCloses DEF Duty!Next
<1>5. CASE Spawn
  <2>1. \E e : e = Head(queue)
    OBVIOUS
  <2>2. PICK e : e = Head(queue)
    BY <2>1
  <2>3. e \in Events /\ Duty!Take(e)
    BY <1>5, <2>2, SpawnTakes
  <2> QED
    BY <2>3 DEF Duty!Next
<1>6. CASE Stop
  BY <1>6, StopCrashes DEF Duty!Next
<1>7. ASSUME NEW e \in Events, FetchAndDecide(e)
      PROVE  [Duty!Next]_Duty!dvars
  BY <1>7, DecisionFiles DEF Duty!Next
<1>8. ASSUME NEW e \in Events, SubmitOk(e)
      PROVE  [Duty!Next]_Duty!dvars
  BY <1>8, SubmitAccepts DEF Duty!Next
<1> QED
  BY <1>1, <1>2, <1>3, <1>4, <1>5, <1>6, <1>7, <1>8, FilingSteps

(***************************************************************************)
(* The daemon does a watcher's duty, for any logs, events and restarts:    *)
(* every step of a task, the pump, the chain or the process is a step of   *)
(* one notice's abstract life, or a crash, or none; a filing is of an      *)
(* event that its own trace contradicts, and an accepted one disputes its  *)
(* thought or nothing.                                                     *)
(***************************************************************************)
THEOREM DutyIsDone == Spec => DoesItsDuty
<1>1. Init => Duty!Init
  BY DEF Init, Duty!Init, Stage
<1>2. TypeOK /\ (\A e \in Events : Placed(e)) /\ [Next]_vars => [Duty!Next]_Duty!dvars
  BY DutyNext
<1> QED
  BY <1>1, <1>2, TypeCorrect, PlacedInvariant, PTL DEF Spec, DoesItsDuty, Duty!Spec
=============================================================================
