------------------------------ MODULE Workspace ------------------------------
(***************************************************************************)
(* What AWS keeps of an investigation, and the life of its tasks: the EFS  *)
(* access points that make it known, the directory they lead to, the task  *)
(* definitions, the ECS tasks that mount the directory, and the backups in *)
(* the audit bucket.  The create-investigation Lambda appears here only by *)
(* what it does to this state (CreateInvestigation has the whole of it);   *)
(* ReapInvestigations and CloseInvestigation add their own actors.         *)
(*                                                                         *)
(* All access points of an investigation lead to the same directory,       *)
(* /cluster_id/investigation_id.  Each task leaves one file there.         *)
(***************************************************************************)
EXTENDS Naturals

CONSTANTS Investigation, AccessPoint, Task,
          MaxClock,     \* bound: the clock stops there
          None          \* no access point

ASSUME ClockAssumption == MaxClock \in Nat
ASSUME NoneAssumption == None \notin AccessPoint

VARIABLES
  clock,
  owner,     \* ClusterID and InvestigationID tags of an access point
  ap,        \* its state: once deleted it never returns
  born,      \* when it was created
  stamped,   \* access points with a CreatedAt tag: old ones have none
  target,    \* the investigation a task is launched for
  task,      \* status of a task
  home,      \* the access point it mounts
  td,        \* state of the task definition registered for it
  dir,       \* investigations whose directory exists
  files,     \* the tasks whose file is in the directory
  written,   \* the tasks that have written their file
  saved      \* the tasks whose file is in reaper-final-backup/ in the audit bucket

fixedVars == <<owner, target>>
efsVars == <<ap, born, stamped, dir, files>>
ecsVars == <<task, home, td>>
workspaceVars == <<clock, fixedVars, efsVars, ecsVars, written, saved>>

ApStates == {"none", "available", "deleted"}
\* "placed": create-investigation has chosen the access point and registered the definition
TaskStates == {"none", "placed", "starting", "running", "stopping", "stopped"}

WorkspaceType ==
  /\ clock \in 0..MaxClock
  /\ owner \in [AccessPoint -> Investigation]
  /\ ap \in [AccessPoint -> ApStates]
  /\ born \in [AccessPoint -> 0..MaxClock]
  /\ stamped \in SUBSET AccessPoint
  /\ target \in [Task -> Investigation]
  /\ task \in [Task -> TaskStates]
  /\ home \in [Task -> AccessPoint \cup {None}]
  /\ td \in [Task -> {"none", "active", "inactive"}]
  /\ dir \in SUBSET Investigation
  /\ files \in [Investigation -> SUBSET Task]
  /\ written \in SUBSET Task
  /\ saved \in SUBSET Task

\* Access points may be there from before, the oldest of them without a CreatedAt tag.
WorkspaceInit ==
  /\ clock = 0
  /\ owner \in [AccessPoint -> Investigation]
  /\ ap \in [AccessPoint -> {"none", "available"}]
  /\ born = [a \in AccessPoint |-> 0]
  /\ stamped \in SUBSET {a \in AccessPoint : ap[a] = "available"}
  /\ target \in [Task -> Investigation]
  /\ task = [t \in Task |-> "none"]
  /\ home = [t \in Task |-> None]
  /\ td = [t \in Task |-> "none"]
  /\ dir = {}
  /\ files = [v \in Investigation |-> {}]
  /\ written = {}
  /\ saved = {}

-----------------------------------------------------------------------------

\* desiredStatus RUNNING
DesiredRunning(t) == task[t] \in {"starting", "running"}
RunningTasks(v) == {t \in Task : target[t] = v /\ DesiredRunning(t)}
AvailableFor(v) == {a \in AccessPoint : owner[a] = v /\ ap[a] = "available"}

Tick ==
  /\ clock < MaxClock
  /\ clock' = clock + 1
  /\ UNCHANGED <<fixedVars, efsVars, ecsVars, written, saved>>

\* create-investigation finds an access point of the investigation, or creates one because
\* it found none or its search was refused, and registers the task definition.
Place(t) ==
  /\ task[t] = "none"
  /\ \E a \in AccessPoint :
       /\ owner[a] = target[t]
       /\ \/ ap[a] = "available" /\ UNCHANGED <<ap, born, stamped>>
          \/ /\ ap[a] = "none"
             /\ ap' = [ap EXCEPT ![a] = "available"]
             /\ born' = [born EXCEPT ![a] = clock]
             /\ stamped' = stamped \cup {a}
       /\ home' = [home EXCEPT ![t] = a]
  /\ task' = [task EXCEPT ![t] = "placed"]
  /\ td' = [td EXCEPT ![t] = "active"]
  /\ UNCHANGED <<clock, fixedVars, dir, files, written, saved>>

\* run_task, which refuses a definition that is not active any more.
Launch(t) ==
  /\ task[t] = "placed"
  /\ task' = [task EXCEPT ![t] = IF td[t] = "active" THEN "starting" ELSE "stopped"]
  /\ UNCHANGED <<clock, fixedVars, efsVars, home, td, written, saved>>

\* Mounting an access point creates the directory; without the access point the task fails.
TaskStarts(t) ==
  /\ task[t] = "starting"
  /\ IF ap[home[t]] = "available"
       THEN /\ task' = [task EXCEPT ![t] = "running"]
            /\ dir' = dir \cup {target[t]}
       ELSE /\ task' = [task EXCEPT ![t] = "stopped"]
            /\ UNCHANGED dir
  /\ UNCHANGED <<clock, fixedVars, ap, born, stamped, files, home, td, written, saved>>

\* A task writes until its container ends, the stopTimeout included.
WriteFile(t) ==
  /\ task[t] \in {"running", "stopping"}
  /\ target[t] \in dir
  /\ t \notin written
  /\ files' = [files EXCEPT ![target[t]] = @ \cup {t}]
  /\ written' = written \cup {t}
  /\ UNCHANGED <<clock, fixedVars, ap, born, stamped, dir, ecsVars, saved>>

\* ecs.stop_task, by whoever calls it
StopTaskEffect(t) ==
  task' = [task EXCEPT ![t] = CASE @ = "running" -> "stopping"
                                [] @ = "starting" -> "stopped"
                                [] OTHER -> @]

TaskToldToStop(t) ==
  /\ DesiredRunning(t)
  /\ StopTaskEffect(t)
  /\ UNCHANGED <<clock, fixedVars, efsVars, home, td, written, saved>>

TaskStops(t) ==
  /\ task[t] = "stopping"
  /\ task' = [task EXCEPT ![t] = "stopped"]
  /\ UNCHANGED <<clock, fixedVars, efsVars, home, td, written, saved>>
=============================================================================
