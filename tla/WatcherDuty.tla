---------------------------- MODULE WatcherDuty ----------------------------
(***************************************************************************)
(* What a watcher promises, whatever tasks, channels, connections and      *)
(* restarts implement it: a notice of a submission is taken up at most     *)
(* once, in the whole life of the watcher; each one taken is closed at     *)
(* most once; a filing is for a notice whose own claim the posted trace    *)
(* contradicts, wherever the notice came from; a dispute opens only when   *)
(* such a filing is accepted, at most one per filing, and stays on record; *)
(* and a crash drops what was under way without any of it being taken up   *)
(* again.                                                                  *)
(***************************************************************************)
CONSTANTS
  Notices, Thoughts,
  About(_),     \* the thought a notice is about
  Contradicted  \* the notices whose claim the posted trace contradicts

VARIABLES
  stage,     \* how far each notice has come
  disputed   \* thoughts this watcher ever disputed

dvars == <<stage, disputed>>

Init ==
  /\ stage = [n \in Notices |-> "waiting"]
  /\ disputed = {}

Take(n) ==
  /\ stage[n] = "waiting"
  /\ stage' = [stage EXCEPT ![n] = "working"]
  /\ UNCHANGED disputed

File(n) ==
  /\ stage[n] = "working"
  /\ n \in Contradicted
  /\ stage' = [stage EXCEPT ![n] = "filing"]
  /\ UNCHANGED disputed

(* Nothing to dispute, no trace to be had, not worth it, or refused.       *)
Close(n) ==
  /\ stage[n] \in {"working", "filing"}
  /\ stage' = [stage EXCEPT ![n] = "closed"]
  /\ UNCHANGED disputed

Accept(n) ==
  /\ stage[n] = "filing"
  /\ stage' = [stage EXCEPT ![n] = "closed"]
  /\ disputed' \in {disputed, disputed \cup {About(n)}}

Crash ==
  /\ stage' = [n \in Notices |-> IF stage[n] = "waiting" THEN "waiting" ELSE "closed"]
  /\ UNCHANGED disputed

Next ==
  \/ Crash
  \/ \E n \in Notices : Take(n) \/ File(n) \/ Close(n) \/ Accept(n)

Spec == Init /\ [][Next]_dvars
=============================================================================
