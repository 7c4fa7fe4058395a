------------------------- MODULE CredentialDelivery --------------------------
(***************************************************************************)
(* What the OCM credential commands promise, whatever becomes of the       *)
(* commands, of the sessions and of the tasks.  Each task has a            *)
(* configuration.  A command that opens a session in a task changes it at  *)
(* most once, in a single step, while that task lives; what is there is    *)
(* what the last such step has put there.  A command says that it was      *)
(* successful only if it has taken effect, or if it has tried to clear and *)
(* failed to remove something: clear says no more than that it has come to *)
(* its end.  When a command takes effect, and whether it ever does, is     *)
(* left open.                                                              *)
(***************************************************************************)
CONSTANTS Process, Task, None

VARIABLES
  config,  \* the configuration in each task: of the process that installed it
  phase,   \* how far each process is with its task
  where,   \* the task it has opened a session in
  says     \* what it has told its user

vars == <<config, phase, where, says>>

Init ==
  /\ config = [t \in Task |-> None]
  /\ phase = [p \in Process |-> "none"]
  /\ where = [p \in Process |-> None]
  /\ says = [p \in Process |-> "nothing"]

Open == {"configuring", "clearing", "removed", "failing"}

\* A session is opened, to configure or to clear.  In a task that has gone it is of no use.
Begin(p, t) ==
  /\ phase[p] = "none"
  /\ where' = [where EXCEPT ![p] = t]
  /\ \E stage \in {"configuring", "clearing", "void"} : phase' = [phase EXCEPT ![p] = stage]
  /\ UNCHANGED <<config, says>>

Install(p) ==
  /\ phase[p] = "configuring"
  /\ phase' = [phase EXCEPT ![p] = "effective"]
  /\ config' = [config EXCEPT ![where[p]] = p]
  /\ UNCHANGED <<where, says>>

\* The configuration goes first, or cannot be removed.
Remove(p) ==
  /\ phase[p] = "clearing"
  /\ \/ /\ phase' = [phase EXCEPT ![p] = "removed"]
        /\ config' = [config EXCEPT ![where[p]] = None]
     \/ /\ phase' = [phase EXCEPT ![p] = "failing"]
        /\ UNCHANGED config
  /\ UNCHANGED <<where, says>>

\* What a clear becomes as it goes on: once something could not be removed, it is not effective.
Onward(stage) == IF stage = "removed" THEN {"removed", "failing", "effective", "kept"} ELSE {"failing", "kept"}

\* Others that were about to install lose what they would install.
Clear(p) ==
  /\ phase[p] \in {"removed", "failing"}
  /\ \E lost \in SUBSET {q \in Process : phase[q] = "configuring" /\ where[q] = where[p]} :
     \E stage \in Onward(phase[p]) :
       phase' = [q \in Process |->
         IF q = p THEN stage ELSE IF q \in lost THEN "void" ELSE phase[q]]
  /\ UNCHANGED <<config, where, says>>

Abandon(p) ==
  /\ phase[p] \in Open
  /\ phase' = [phase EXCEPT ![p] = "void"]
  /\ UNCHANGED <<config, where, says>>

\* The task ends, and with it what is in it and what is under way in it.
Vanish(t) ==
  /\ config' = [config EXCEPT ![t] = None]
  /\ phase' = [q \in Process |-> IF where[q] = t /\ phase[q] \in Open THEN "void" ELSE phase[q]]
  /\ UNCHANGED <<where, says>>

Succeed(p) ==
  /\ says[p] = "nothing" /\ phase[p] \in {"effective", "kept"}
  /\ says' = [says EXCEPT ![p] = "success"]
  /\ UNCHANGED <<config, phase, where>>

\* It may have taken effect all the same, or what comes after it fails.
GiveUp(p) ==
  /\ says' = [says EXCEPT ![p] = "failure"]
  /\ UNCHANGED <<config, phase, where>>

Next ==
  \/ \E t \in Task : Vanish(t)
  \/ \E p \in Process : Install(p) \/ Remove(p) \/ Clear(p) \/ Abandon(p) \/ Succeed(p) \/ GiveUp(p)
  \/ \E p \in Process, t \in Task : Begin(p, t)

Spec == Init /\ [][Next]_vars
=============================================================================
