-------------------------- MODULE CloseInvestigation --------------------------
(***************************************************************************)
(* The close-investigation command (internal/cmd/close_investigation.go):  *)
(* it finds the access point of an investigation, by investigation ID and, *)
(* when it is given, cluster ID; looks for running tasks by their tags and *)
(* refuses, or stops them with --force; deregisters the task definitions;  *)
(* asks for a confirmation, and deletes the access point.                  *)
(*                                                                         *)
(* Every action is one call to AWS, or the answer of the operator.  Tasks  *)
(* are placed, launched and stopped meanwhile.  The directory stays.       *)
(***************************************************************************)
EXTENDS Workspace

CONSTANTS Operator,         \* those who run the command
          InvestigationId,  \* one ID may be in use for several clusters
          IdOf,             \* the investigation_id of an investigation
          Covers            \* those whose {cluster_id}-{investigation_id} begins with that of
                            \* the investigation: inv-1 covers inv-10, and inv-1-b

ASSUME IdAssumption == IdOf \in [Investigation -> InvestigationId]
ASSUME CoversAssumption ==
  /\ Covers \in [Investigation -> SUBSET Investigation]
  /\ \A v \in Investigation : v \in Covers[v]
ASSUME UnknownAssumption == None \notin Investigation

VARIABLES
  tagged,    \* tasks whose tags can be seen: they may lag behind run_task
  pc,
  force,     \* --force
  inv,       \* closeClusterID and closeInvestigationID, once both are known
  id,        \* closeInvestigationID
  chosen,    \* the access point found
  running,   \* runningTasks, as they were listed
  stopped,   \* those told to stop so far
  defs,      \* the task definitions listed
  (* history *)
  unseen     \* tasks launched, or still without tags, when the command looked for them

commandVars == <<pc, force, inv, id, chosen, running, stopped, defs, unseen>>
vars == <<workspaceVars, tagged, commandVars>>

Stages == {"idle", "find", "list", "stop", "wait", "definitions", "deregister", "confirm", "delete"}

TypeOK ==
  /\ WorkspaceType
  /\ tagged \in SUBSET Task
  /\ pc \in [Operator -> Stages]
  /\ force \in [Operator -> BOOLEAN]
  /\ inv \in [Operator -> Investigation \cup {None}]
  /\ id \in [Operator -> InvestigationId]
  /\ chosen \in [Operator -> AccessPoint \cup {None}]
  /\ running \in [Operator -> SUBSET Task]
  /\ stopped \in [Operator -> SUBSET Task]
  /\ defs \in [Operator -> SUBSET Task]
  /\ unseen \in [Operator -> SUBSET Task]
  /\ \A o \in Operator : stopped[o] \subseteq running[o]
  /\ \A o \in Operator : pc[o] \notin {"idle", "find"} => inv[o] # None /\ chosen[o] # None

Init ==
  /\ WorkspaceInit
  /\ tagged = {}
  /\ pc = [o \in Operator |-> "idle"]
  /\ force = [o \in Operator |-> FALSE]
  /\ inv = [o \in Operator |-> None]
  /\ id \in [Operator -> InvestigationId]
  /\ chosen = [o \in Operator |-> None]
  /\ running = [o \in Operator |-> {}]
  /\ stopped = [o \in Operator |-> {}]
  /\ defs = [o \in Operator |-> {}]
  /\ unseen = [o \in Operator |-> {}]

-----------------------------------------------------------------------------
(* The command. *)

Goto(o, stage) == pc' = [pc EXCEPT ![o] = stage]

\* It returns, with or without an error, and what it knew is gone.
Return(o) ==
  /\ Goto(o, "idle")
  /\ force' = [force EXCEPT ![o] = FALSE]
  /\ inv' = [inv EXCEPT ![o] = None]
  /\ chosen' = [chosen EXCEPT ![o] = None]
  /\ running' = [running EXCEPT ![o] = {}]
  /\ stopped' = [stopped EXCEPT ![o] = {}]
  /\ defs' = [defs EXCEPT ![o] = {}]
  /\ unseen' = [unseen EXCEPT ![o] = {}]
  /\ UNCHANGED id

\* --investigation-id, and --cluster-id or not.
Begin(o) ==
  /\ pc[o] = "idle"
  /\ Goto(o, "find")
  /\ \E v \in Investigation :
       /\ id' = [id EXCEPT ![o] = IdOf[v]]
       /\ inv' = [inv EXCEPT ![o] = v] \/ UNCHANGED inv
  /\ \E f \in BOOLEAN : force' = [force EXCEPT ![o] = f]
  /\ UNCHANGED <<workspaceVars, tagged, chosen, running, stopped, defs, unseen>>

Matches(o) ==
  {a \in AccessPoint :
     /\ ap[a] = "available"
     /\ IdOf[owner[a]] = id[o]
     /\ inv[o] = None \/ owner[a] = inv[o]}

\* A cluster that was not given is read from the tags.
InvestigationOf(o, a) == IF inv[o] = None THEN owner[a] ELSE inv[o]

\* Several matches are an error only when the cluster was left out; otherwise the first of
\* them is taken.
FindAccessPointByTags(o) ==
  /\ pc[o] = "find"
  /\ \/ /\ inv[o] = None => \A a, b \in Matches(o) : a = b
        /\ \E a \in Matches(o) :
             /\ chosen' = [chosen EXCEPT ![o] = a]
             /\ inv' = [inv EXCEPT ![o] = InvestigationOf(o, a)]
        /\ Goto(o, "list")
        /\ UNCHANGED <<force, id, running, stopped, defs, unseen>>
     \/ Return(o)
  /\ UNCHANGED <<workspaceVars, tagged>>

\* Fault: the investigation ID is enough.
MutTasksByInvestigation(v) ==
  {t \in Task : IdOf[target[t]] = IdOf[v] /\ DesiredRunning(t) /\ t \in tagged}

TasksByInvestigation(v) == RunningTasks(v) \cap tagged

Refused(o) == TasksByInvestigation(inv[o]) # {} /\ ~force[o]

\* Running tasks are an error without --force; so is a listing that fails.
ListTasksByInvestigation(o) ==
  /\ pc[o] = "list"
  /\ \/ /\ ~Refused(o)
        /\ running' = [running EXCEPT ![o] = TasksByInvestigation(inv[o])]
        /\ unseen' = [unseen EXCEPT ![o] = RunningTasks(inv[o]) \ tagged]
        /\ Goto(o, IF running'[o] = {} THEN "definitions" ELSE "stop")
        /\ UNCHANGED <<force, inv, id, chosen, stopped, defs>>
     \/ Return(o)
  /\ UNCHANGED <<workspaceVars, tagged>>

\* The first stop that fails ends the command, with the tasks before it stopped.
StopTask(o) ==
  /\ pc[o] = "stop"
  /\ \E t \in running[o] \ stopped[o] :
       \/ /\ StopTaskEffect(t)
          /\ stopped' = [stopped EXCEPT ![o] = @ \cup {t}]
          /\ Goto(o, IF stopped'[o] = running[o] THEN "wait" ELSE "stop")
          /\ UNCHANGED <<force, inv, id, chosen, running, defs, unseen>>
       \/ /\ StopTaskEffect(t) \/ UNCHANGED task
          /\ Return(o)
  /\ UNCHANGED <<clock, fixedVars, efsVars, home, td, written, saved, tagged>>

\* Fault: the command does not wait.
MutWaitForStopped(o) ==
  /\ pc[o] = "wait"
  /\ Goto(o, "definitions")
  /\ UNCHANGED <<workspaceVars, tagged, force, inv, id, chosen, running, stopped, defs, unseen>>

\* The waiter of each task sees it stopped, or gives up after ten minutes: a warning only.
WaitForStopped(o) ==
  /\ pc[o] = "wait"
  /\ \E gaveUp \in SUBSET running[o] :
       /\ \A t \in running[o] \ gaveUp : task[t] = "stopped"
       /\ unseen' = [unseen EXCEPT ![o] = @ \cup gaveUp]
  /\ Goto(o, "definitions")
  /\ UNCHANGED <<workspaceVars, tagged, force, inv, id, chosen, running, stopped, defs>>

\* The active definitions whose family begins with that of the investigation.  Unlike the reaper
\* (reap-investigations handler.py 773-783), the command does not look at what follows.
DefinitionsOfFamily(v) == {t \in Task : target[t] \in Covers[v] /\ td[t] = "active"}

ListTaskDefinitionsByFamily(o) ==
  /\ pc[o] = "definitions"
  /\ \/ /\ defs' = [defs EXCEPT ![o] = DefinitionsOfFamily(inv[o])]
        /\ Goto(o, "deregister")
        /\ UNCHANGED <<force, inv, id, chosen, running, stopped, unseen>>
     \/ Return(o)
  /\ UNCHANGED <<workspaceVars, tagged>>

\* A definition that cannot be deregistered is a warning.  The definitions that ECS does not list
\* for the prefix are among those that stay, too.
DeregisterTaskDefinitions(o) ==
  /\ pc[o] = "deregister"
  /\ \E gone \in SUBSET defs[o] :
       td' = [t \in Task |-> IF t \in gone THEN "inactive" ELSE td[t]]
  /\ Goto(o, "confirm")
  /\ UNCHANGED <<clock, fixedVars, efsVars, task, home, written, saved, tagged,
                 force, inv, id, chosen, running, stopped, defs, unseen>>

\* The operator takes their time over the answer, or --yes has given it.
Confirm(o) ==
  /\ pc[o] = "confirm"
  /\ \/ /\ Goto(o, "delete")
        /\ UNCHANGED <<force, inv, id, chosen, running, stopped, defs, unseen>>
     \/ Return(o)
  /\ UNCHANGED <<workspaceVars, tagged>>

\* A failed call may have deleted it.
DeleteAccessPoint(o) ==
  /\ pc[o] = "delete"
  /\ \/ ap' = [ap EXCEPT ![chosen[o]] = "deleted"]
     \/ UNCHANGED ap
  /\ Return(o)
  /\ UNCHANGED <<clock, fixedVars, born, stamped, dir, files, ecsVars, written, saved, tagged>>

Close(o) ==
  \/ Begin(o) \/ FindAccessPointByTags(o) \/ ListTasksByInvestigation(o) \/ StopTask(o)
  \/ WaitForStopped(o) \/ ListTaskDefinitionsByFamily(o) \/ DeregisterTaskDefinitions(o)
  \/ Confirm(o) \/ DeleteAccessPoint(o)

-----------------------------------------------------------------------------
(* The tasks. *)

\* The command has looked for tasks.
Looked(o) == pc[o] \in {"stop", "wait", "definitions", "deregister", "confirm", "delete"}

Environment ==
  \E t \in Task :
    \/ /\ Place(t) \/ TaskStarts(t) \/ WriteFile(t) \/ TaskToldToStop(t) \/ TaskStops(t)
       /\ UNCHANGED <<commandVars, tagged>>
    \/ /\ Launch(t)
       /\ tagged' = tagged \cup {t} \/ UNCHANGED tagged
       /\ unseen' = [o \in Operator |-> IF Looked(o) THEN unseen[o] \cup {t} ELSE unseen[o]]
       /\ UNCHANGED <<pc, force, inv, id, chosen, running, stopped, defs>>
    \/ /\ DesiredRunning(t)
       /\ t \notin tagged
       /\ tagged' = tagged \cup {t}
       /\ UNCHANGED <<workspaceVars, commandVars>>

Next == (\E o \in Operator : Close(o)) \/ Environment

Spec == Init /\ [][Next]_vars

-----------------------------------------------------------------------------
(* Safety. *)

\* No task loses its access point to a command that could have known of it: one that is
\* to run, or that the command itself stopped, has ended when the access point goes, unless
\* it was launched later, showed no tags yet, or did not stop in ten minutes
\* (close_investigation.go 98-124 before 165).
CloseSparesTasks ==
  [][\A o \in Operator, t \in Task :
       /\ pc[o] = "delete" /\ home[t] = chosen[o]
       /\ ap[chosen[o]] = "available" /\ ap'[chosen[o]] = "deleted"
       /\ DesiredRunning(t) \/ (t \in running[o] /\ task[t] = "stopping")
     => t \in unseen[o]]_vars

\* An investigation ID that is in use for several clusters leads to no other cluster: the
\* tasks that a command stops, with --force only, and the access point it deletes belong to the
\* investigation that was asked for, or to the one that the access point names
\* (close_investigation.go 75-117, ecs.go 278-292, efs.go 43-102).  Of the task definitions only
\* this holds: whoever loses one has a name that begins with that of the investigation, its own
\* or a longer one (close_investigation.go 131-150, ecs.go 251-264).
CloseStaysInside ==
  [][/\ \A o \in Operator :
          /\ \A t \in stopped'[o] \ stopped[o] : force[o] /\ target[t] = owner[chosen[o]]
          /\ chosen[o] # None => owner[chosen[o]] = inv[o]
     /\ \A t \in Task :
          td[t] = "active" /\ td'[t] = "inactive" =>
            \E o \in Operator : pc[o] = "deregister" /\ target[t] \in Covers[owner[chosen[o]]]]_vars
=============================================================================
