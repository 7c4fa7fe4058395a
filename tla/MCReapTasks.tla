---------------------------- MODULE MCReapTasks ----------------------------
(* Small instances of ReapTasks for TLC. *)
EXTENDS ReapTasks, TLC

Symmetry == Permutations(Run) \cup Permutations(Task) \cup Permutations(Container)
\* Bound of the run with several tasks: every container is up, with its runtimeId, when the
\* first run begins, and no task is launched without ECS Exec.  Spec reaches these states;
\* the run with one task covers the rest.
SettledInit ==
  /\ clock = 0
  /\ deadline \in [Task -> 0..MaxClock \cup {NoDeadline}]
  /\ exec \in [Task -> {"yes", "unknown"}]
  /\ wanted = Task
  /\ box = [t \in Task |-> [c \in Container |-> "running"]]
  /\ sessions = {}
  /\ pc = [r \in Run |-> "idle"]
  /\ now = [r \in Run |-> 0]
  /\ todo = [r \in Run |-> {}]
  /\ due = [r \in Run |-> Nothing]
  /\ current = [r \in Run |-> None]
  /\ cleared = [r \in Run |-> {}]
  /\ counts = [r \in Run |-> NoCounts]
  /\ listed = [r \in Run |-> {}]
  /\ late = {}
  /\ faults = 0

SettledSpec == SettledInit /\ [][Next]_vars
=============================================================================
