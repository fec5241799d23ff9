------------------------------ MODULE MCWatcher ------------------------------
(***************************************************************************)
(* Finite instances of Watcher.  Amounts are in units of 0.005 SOL: main's *)
(* placeholders are a stake of 20000 and a bond floor of 100, the fee is 1 *)
(* and a cap of 100 (--max-stake-at-risk 0.5) has room for one bond.       *)
(***************************************************************************)
EXTENDS Watcher, FiniteSetsExt

CONSTANTS t1, t2, e1, e2, e3, e4, x1, x2, x3

MCAllButLanded == [e \in Events |-> IF e = e2 THEN "Match" ELSE "Mismatch"]
MCAllFrauds == [e \in Events |-> "Mismatch"]

Text == [kind |-> "text", event |-> NoEvent]
Bad == [kind |-> "truncated", event |-> NoEvent]
Submitted(e) == [kind |-> "event", event |-> e]

(* Submissions that succeed at once. *)
MCOneEventEach == [e \in Events |-> IF e = e1 THEN t1 ELSE t2]
MCTwoLogs == [x \in Transactions |-> IF x = x1 THEN <<Submitted(e1)>> ELSE <<Submitted(e2)>>]

(* t1 is submitted twice: the first attempt fails, or its line is another  *)
(* program's, and says what the trace contradicts; the one that lands, in  *)
(* x2, is honest.  With it, after somebody's malformed line, lands the     *)
(* fraudulent t2, of which another line, of x3, says so too.               *)
MCRetried == [e \in Events |-> IF e \in {e1, e2} THEN t1 ELSE t2]
MCThreeLogs ==
  [x \in Transactions |->
     CASE x = x1 -> <<Submitted(e1)>>
       [] x = x2 -> <<Bad, Submitted(e2), Submitted(e4)>>
       [] x = x3 -> <<Text, Submitted(e3)>>]

----------------------------------------------------------------------------
(* What the documentation says and the daemon does not do. *)

OpenDisputes == {t \in Thoughts : disputes[t] = "open"}

(***************************************************************************)
(* challenge.rs:184, "Sum of (in-flight bond) + (this challenge's bond)    *)
(* must not exceed this value": the bonds at stake in this watcher's open  *)
(* disputes stay within max_stake_at_risk_lamports.                        *)
(***************************************************************************)
DocBondsWithinCap == Bond * Cardinality(OpenDisputes) <= MaxAtRisk
=============================================================================
