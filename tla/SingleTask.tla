----------------------------- MODULE SingleTask -----------------------------
(***************************************************************************)
(* What the create-investigation Lambda promises of the tasks of an        *)
(* investigation: one is launched only when none is wanted any more        *)
(* ("only one task may be running per investigation at any given time",    *)
(* docs/architecture/investigations-and-tasks.md), and a task that was     *)
(* told to stop never comes back.  Who stops a task, and why, is left open.*)
(***************************************************************************)
EXTENDS FiniteSets

CONSTANTS Task, Investigation

VARIABLES
  wanted,   \* the tasks of each investigation that ECS is to keep running
  launched  \* the tasks that were ever launched

vars == <<wanted, launched>>

Init ==
  /\ wanted = [v \in Investigation |-> {}]
  /\ launched = {}

Launch(v, t) ==
  /\ wanted[v] = {}
  /\ t \notin launched
  /\ wanted' = [wanted EXCEPT ![v] = {t}]
  /\ launched' = launched \cup {t}

Stop(v, t) ==
  /\ t \in wanted[v]
  /\ wanted' = [wanted EXCEPT ![v] = @ \ {t}]
  /\ UNCHANGED launched

Next == \E v \in Investigation, t \in Task : Launch(v, t) \/ Stop(v, t)

Spec == Init /\ [][Next]_vars
=============================================================================
