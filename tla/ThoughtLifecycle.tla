------------------------- MODULE ThoughtLifecycle -------------------------
(***************************************************************************)
(* What the protocol promises about a thought, whatever accounts and       *)
(* lamports implement it: it is committed once; it may be disputed once,   *)
(* and only until its challenge window elapses; a bond is at stake exactly *)
(* while the dispute is open; it is settled by silence after the window or *)
(* by a verdict; and it gates actions only when Finalized.                 *)
(***************************************************************************)
EXTENDS Naturals

CONSTANTS Thoughts, Bonds

VARIABLES
  phase,    \* where each thought is in its life
  elapsed,  \* thoughts whose challenge window is over
  escrow,   \* bond at stake on each thought
  uses      \* how often each thought gated an action

tvars == <<phase, elapsed, escrow, uses>>

Init ==
  /\ phase = [t \in Thoughts |-> "None"]
  /\ elapsed = {}
  /\ escrow = [t \in Thoughts |-> 0]
  /\ uses = [t \in Thoughts |-> 0]

(* A window of no slots has elapsed from the start. *)
Commit(t) ==
  /\ phase[t] = "None"
  /\ phase' = [phase EXCEPT ![t] = "Pending"]
  /\ elapsed' \in {elapsed, elapsed \cup {t}}
  /\ UNCHANGED <<escrow, uses>>

Elapse ==
  /\ elapsed' \in SUBSET {t \in Thoughts : phase[t] # "None"}
  /\ elapsed \subseteq elapsed'
  /\ UNCHANGED <<phase, escrow, uses>>

Dispute(t, bond) ==
  /\ phase[t] = "Pending"
  /\ t \notin elapsed
  /\ phase' = [phase EXCEPT ![t] = "Challenged"]
  /\ escrow' = [escrow EXCEPT ![t] = bond]
  /\ UNCHANGED <<elapsed, uses>>

Settle(t) ==
  /\ phase[t] = "Pending"
  /\ t \in elapsed
  /\ phase' = [phase EXCEPT ![t] = "Finalized"]
  /\ UNCHANGED <<elapsed, escrow, uses>>

Rule(t, outcome) ==
  /\ phase[t] = "Challenged"
  /\ phase' = [phase EXCEPT ![t] = outcome]
  /\ escrow' = [escrow EXCEPT ![t] = 0]
  /\ UNCHANGED <<elapsed, uses>>

Use(t) ==
  /\ phase[t] = "Finalized"
  /\ uses' = [uses EXCEPT ![t] = @ + 1]
  /\ UNCHANGED <<phase, elapsed, escrow>>

Next ==
  \/ Elapse
  \/ \E t \in Thoughts :
       \/ Commit(t) \/ Settle(t) \/ Use(t)
       \/ \E bond \in Bonds : Dispute(t, bond)
       \/ \E outcome \in {"Finalized", "Slashed"} : Rule(t, outcome)

Spec == Init /\ [][Next]_tvars
=============================================================================
