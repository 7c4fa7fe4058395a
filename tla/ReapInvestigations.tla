-------------------------- MODULE ReapInvestigations --------------------------
(***************************************************************************)
(* The reap-investigations Lambda (lambda/reap-investigations/handler.py): *)
(* it lists access points, running tasks and task definitions once, and    *)
(* for each stale investigation looks for tasks again, backs its directory *)
(* up, deletes it, then the access point, then the task definitions.       *)
(*                                                                         *)
(* Every action of the reaper is one call to AWS or one operation on the   *)
(* mounted file system, with the code that follows it up to the next one.  *)
(* Failures are drawn from a budget, so that liveness can be stated.  Runs *)
(* do not overlap: a run takes 300 seconds and the schedule is in hours.   *)
(***************************************************************************)
EXTENDS Workspace

CONSTANTS Grace,        \* GRACE_PERIOD_HOURS, in ticks of the clock
          FaultBudget   \* bound: calls that fail

ASSUME GraceAssumption == Grace \in Nat
ASSUME FaultAssumption == FaultBudget \in Nat

VARIABLES
  pc,
  now,        \* when the run began
  queue,      \* access points still to be dealt with
  busy,       \* investigations with a running task when the run began
  defs,       \* task definitions that were active when the run began
  current,    \* access_point_id of the one being reaped
  walked,     \* its files, as os.walk listed them, still to be uploaded
  excluded,   \* files the backup leaves out: in .config/ocm or .kube, or not regular files
  (* history *)
  late,       \* tasks launched for an investigation after the recheck had found none
  lateFiles,  \* files written after the recheck
  overlooked, \* files in a directory that could not be listed when its backup was made
  remounted,  \* investigations whose directory came back after the reaper had removed it
  faults      \* calls that have failed

reaperVars == <<pc, now, queue, busy, defs, current, walked>>
backupVars == <<excluded, overlooked>>
historyVars == <<late, lateFiles, remounted, backupVars>>
vars == <<workspaceVars, reaperVars, historyVars, faults>>

Stages == {"idle", "listAccessPoints", "listTasks", "listDefinitions", "refresh",
           "walk", "upload", "rmtree", "deleteAP", "deregister"}

TypeOK ==
  /\ WorkspaceType
  /\ pc \in Stages
  /\ now \in 0..MaxClock
  /\ queue \in SUBSET AccessPoint
  /\ busy \in SUBSET Investigation
  /\ defs \in SUBSET Task
  /\ current \in AccessPoint \cup {None}
  /\ walked \in SUBSET Task
  /\ late \in SUBSET Task
  /\ lateFiles \in SUBSET Task
  /\ excluded \in SUBSET Task
  /\ overlooked \in SUBSET Task
  /\ remounted \in SUBSET Investigation
  /\ faults \in 0..FaultBudget
  /\ current = None <=> pc \in {"idle", "listAccessPoints", "listTasks", "listDefinitions", "refresh"}

Init ==
  /\ WorkspaceInit
  /\ pc = "idle"
  /\ now = 0
  /\ queue = {}
  /\ busy = {}
  /\ defs = {}
  /\ current = None
  /\ walked = {}
  /\ late = {}
  /\ lateFiles = {}
  /\ excluded \in SUBSET Task
  /\ overlooked = {}
  /\ remounted = {}
  /\ faults = 0

-----------------------------------------------------------------------------
(* The run. *)

NoFault == UNCHANGED faults
Fault == faults < FaultBudget /\ faults' = faults + 1

\* The investigation being reaped
V == owner[current]

StartRun ==
  /\ pc = "idle"
  /\ pc' = "listAccessPoints"
  /\ now' = clock
  /\ UNCHANGED <<workspaceVars, queue, busy, defs, current, walked, historyVars, faults>>

\* The run ends, and what it had listed is forgotten.
EndRun ==
  /\ pc' = "idle"
  /\ now' = 0
  /\ queue' = {}
  /\ busy' = {}
  /\ defs' = {}
  /\ current' = None
  /\ walked' = {}
  /\ late' = {}

\* A listing that fails ends the run.
ListAccessPoints ==
  /\ pc = "listAccessPoints"
  /\ \/ /\ NoFault
        /\ queue' = {a \in AccessPoint : ap[a] = "available"}
        /\ pc' = "listTasks"
        /\ UNCHANGED <<now, busy, defs, current, walked, late>>
     \/ Fault /\ EndRun
  /\ UNCHANGED <<workspaceVars, lateFiles, remounted, backupVars>>

ListAllRunningTasks ==
  /\ pc = "listTasks"
  /\ \/ /\ NoFault
        /\ busy' = {v \in Investigation : RunningTasks(v) # {}}
        /\ pc' = "listDefinitions"
        /\ UNCHANGED <<now, queue, defs, current, walked, late>>
     \/ Fault /\ EndRun
  /\ UNCHANGED <<workspaceVars, lateFiles, remounted, backupVars>>

\* Fault: the age may reach the grace period.
MutIsInvestigationStale(a) ==
  /\ owner[a] \notin busy
  /\ a \in stamped => now - born[a] >= Grace

\* No task ran when the run began, and it is older than the grace period or of unknown age.
IsInvestigationStale(a) ==
  /\ owner[a] \notin busy
  /\ a \in stamped => now - born[a] > Grace

\* From here on the staleness of each access point is settled.
ListAllTaskDefinitions ==
  /\ pc = "listDefinitions"
  /\ \/ LET stale == {a \in queue : IsInvestigationStale(a)}
        IN /\ NoFault
           /\ stale # {}
           /\ queue' = stale
           /\ defs' = {t \in Task : td[t] = "active"}
           /\ pc' = "refresh"
           /\ UNCHANGED <<now, busy, current, walked, late>>
     \/ (Fault \/ (NoFault /\ \A a \in queue : ~IsInvestigationStale(a))) /\ EndRun
  /\ UNCHANGED <<workspaceVars, lateFiles, remounted, backupVars>>

\* On to the next access point.
Leave(a) ==
  IF queue = {a}
    THEN EndRun
    ELSE /\ queue' = queue \ {a}
         /\ current' = None
         /\ late' = {}
         /\ pc' = "refresh"
         /\ UNCHANGED <<now, busy, defs, walked>>

\* Fault: the tasks listed at the beginning will do.
MutListTasksByInvestigation ==
  /\ pc = "refresh"
  /\ \E a \in queue : current' = a
  /\ NoFault
  /\ pc' = "walk"
  /\ UNCHANGED <<workspaceVars, now, queue, busy, defs, walked, historyVars>>

\* The recheck: a task, or no answer, and the investigation is left alone.
ListTasksByInvestigation ==
  /\ pc = "refresh"
  /\ \E a \in queue :
       \/ /\ RunningTasks(owner[a]) = {}
          /\ NoFault
          /\ current' = a
          /\ pc' = "walk"
          /\ UNCHANGED <<now, queue, busy, defs, walked, late>>
       \/ RunningTasks(owner[a]) # {} /\ NoFault /\ Leave(a)
       \/ Fault /\ Leave(a)
  /\ UNCHANGED <<workspaceVars, lateFiles, remounted, backupVars>>

\* os.walk and the checks of each file: a directory that cannot be listed is passed over in
\* silence, and so are the files the backup leaves out.
Listing ==
  \E hidden \in SUBSET files[V] :
    /\ IF hidden = {} THEN NoFault ELSE Fault
    /\ walked' = files[V] \ (excluded \cup hidden)
    /\ overlooked' = (overlooked \ {t \in files[V] : target[t] = V}) \cup hidden

\* Fault: a directory that is not there cannot be deleted.
MutWalkDirectory ==
  /\ pc = "walk"
  /\ \/ /\ V \in dir
        /\ Listing
        /\ pc' = IF walked' = {} THEN "rmtree" ELSE "upload"
     \/ /\ (V \notin dir /\ NoFault) \/ Fault
        /\ pc' = "deregister"
        /\ UNCHANGED <<walked, overlooked>>
  /\ UNCHANGED <<workspaceVars, now, queue, busy, defs, current, late, lateFiles, remounted, excluded>>

\* delete_investigation_directory: a directory that is not there counts as deleted; without
\* the mount, or the bucket, there is nothing to be done.
WalkDirectory ==
  /\ pc = "walk"
  /\ \/ /\ V \in dir
        /\ Listing
        /\ pc' = IF walked' = {} THEN "rmtree" ELSE "upload"
     \/ /\ V \notin dir
        /\ NoFault
        /\ pc' = "deleteAP"
        /\ UNCHANGED <<walked, overlooked>>
     \/ /\ Fault
        /\ pc' = "deregister"
        /\ UNCHANGED <<walked, overlooked>>
  /\ UNCHANGED <<workspaceVars, now, queue, busy, defs, current, late, lateFiles, remounted, excluded>>

\* Fault: a file that cannot be uploaded is logged and skipped.
MutUploadFile ==
  /\ pc = "upload"
  /\ \E f \in walked :
       /\ \/ NoFault /\ saved' = saved \cup {f}
          \/ Fault /\ UNCHANGED saved
       /\ walked' = walked \ {f}
       /\ pc' = IF walked' = {} THEN "rmtree" ELSE "upload"
  /\ UNCHANGED <<clock, fixedVars, efsVars, ecsVars, written, now, queue, busy, defs, current, historyVars>>

\* One file.  Any failure, or the deadline of the backup, keeps the directory.
UploadFile ==
  /\ pc = "upload"
  /\ \E f \in walked :
       \/ /\ NoFault
          /\ saved' = saved \cup {f}
          /\ walked' = walked \ {f}
          /\ pc' = IF walked' = {} THEN "rmtree" ELSE "upload"
       \/ /\ Fault
          /\ saved' = saved \cup {f} \/ UNCHANGED saved
          /\ walked' = {}
          /\ pc' = "deregister"
  /\ UNCHANGED <<clock, fixedVars, efsVars, ecsVars, written, now, queue, busy, defs, current, historyVars>>

\* Fault: the access point goes even when the directory could not be removed.
MutRemoveTree ==
  /\ pc = "rmtree"
  /\ \/ /\ NoFault
        /\ dir' = dir \ {V}
        /\ files' = [files EXCEPT ![V] = {}]
     \/ Fault /\ UNCHANGED <<dir, files>>
  /\ pc' = "deleteAP"
  /\ UNCHANGED <<clock, fixedVars, ap, born, stamped, ecsVars, written, saved,
                 now, queue, busy, defs, current, walked, historyVars>>

\* shutil.rmtree: when it fails, it may have removed some of the files.
RemoveTree ==
  /\ pc = "rmtree"
  /\ \/ /\ NoFault
        /\ dir' = dir \ {V}
        /\ files' = [files EXCEPT ![V] = {}]
        /\ pc' = "deleteAP"
     \/ /\ Fault
        /\ \E kept \in SUBSET files[V] : files' = [files EXCEPT ![V] = kept]
        /\ pc' = "deregister"
        /\ UNCHANGED dir
  /\ UNCHANGED <<clock, fixedVars, ap, born, stamped, ecsVars, written, saved,
                 now, queue, busy, defs, current, walked, historyVars>>

DeleteAccessPoint ==
  /\ pc = "deleteAP"
  /\ \/ NoFault /\ ap' = [ap EXCEPT ![current] = "deleted"]
     \/ Fault /\ (ap' = [ap EXCEPT ![current] = "deleted"] \/ UNCHANGED ap)
  /\ pc' = "deregister"
  /\ UNCHANGED <<clock, fixedVars, born, stamped, dir, files, ecsVars, written, saved,
                 now, queue, busy, defs, current, walked, historyVars>>

\* Of the definitions listed at the beginning, those of this investigation, whether its
\* directory and access point are gone or not; the ones that fail are logged.
DeleteTaskDefinitions ==
  /\ pc = "deregister"
  /\ \E gone \in SUBSET {t \in defs : target[t] = V} :
       /\ td' = [t \in Task |-> IF t \in gone THEN "inactive" ELSE td[t]]
       /\ IF gone = {t \in defs : target[t] = V} THEN NoFault ELSE Fault
  /\ Leave(current)
  /\ UNCHANGED <<clock, fixedVars, efsVars, task, home, written, saved, lateFiles, remounted, backupVars>>

\* The run is out of time: it stops before the next investigation, or is killed anywhere.
RunTimesOut ==
  /\ pc # "idle"
  /\ Fault
  /\ EndRun
  /\ UNCHANGED <<workspaceVars, lateFiles, remounted, backupVars>>

Reap ==
  \/ StartRun \/ ListAccessPoints \/ ListAllRunningTasks \/ ListAllTaskDefinitions
  \/ ListTasksByInvestigation \/ WalkDirectory \/ UploadFile \/ RemoveTree
  \/ DeleteAccessPoint \/ DeleteTaskDefinitions

-----------------------------------------------------------------------------
(* The tasks, with the history of what the recheck could not see. *)

\* The recheck of v is over and its access point may still be deleted.
Rechecked(v) == pc \in {"walk", "upload", "rmtree", "deleteAP"} /\ v = V

Environment ==
  /\ UNCHANGED <<reaperVars, faults>>
  /\ \/ Tick /\ UNCHANGED historyVars
     \/ \E t \in Task :
          \/ (Place(t) \/ TaskToldToStop(t) \/ TaskStops(t)) /\ UNCHANGED historyVars
          \/ /\ Launch(t)
             /\ late' = IF Rechecked(target[t]) THEN late \cup {t} ELSE late
             /\ UNCHANGED <<lateFiles, remounted, backupVars>>
          \/ /\ TaskStarts(t)
             /\ remounted' = IF pc = "deleteAP" /\ target[t] = V
                               THEN remounted \cup {V} ELSE remounted
             /\ UNCHANGED <<late, lateFiles, backupVars>>
          \/ /\ WriteFile(t)
             /\ lateFiles' = IF Rechecked(target[t]) THEN lateFiles \cup {t} ELSE lateFiles
             /\ UNCHANGED <<late, remounted, backupVars>>

Next == Reap \/ RunTimesOut \/ Environment

Spec == Init /\ [][Next]_vars

\* EventBridge starts a run on every period and Lambda carries it on.  Nothing is assumed
\* of the tasks.
FairSpec == Spec /\ WF_vars(Reap)

-----------------------------------------------------------------------------
(* Safety. *)

\* What the backup is for is not lost: whatever fails and wherever a run is killed, a file is
\* in its directory or in the backup (handler.py 663, 697-707).  That is not so of all files.  The
\* backup leaves out .config/ocm, .kube and what is not a regular file (593-603, 619-621), and
\* does not notice a directory it cannot list (583), although rmtree removes them all (707); and
\* it comes too late for what is written after the recheck had found no task (208-219).
EveryFileIsKept ==
  \A t \in written : t \in files[target[t]] \cup saved \cup lateFiles \cup excluded \cup overlooked

\* A directory is never out of reach: as long as it exists an access point leads to it, for
\* the next run to find, unless a task brought it back while the access point was being
\* deleted ("Directory must be deleted before access point", handler.py 468).
DirectoryStaysReachable ==
  \A v \in dir : AvailableFor(v) # {} \/ v \in remounted

\* The reaper never takes the workspace from a task it could have known of: a task that
\* runs or starts when its directory or its access point goes was launched after the
\* recheck (handler.py 207-219).
ReapSparesTasks ==
  [][\A t \in Task :
       /\ DesiredRunning(t)
       /\ pc \in {"rmtree", "deleteAP"} /\ V = target[t]
       /\ dir' # dir \/ ap' # ap
       /\ pc' # pc
     => t \in late]_vars

\* An access point of known age never goes within its grace period, whatever the reaper
\* listed when (handler.py 293-312).  One without a CreatedAt tag may, although the
\* documentation says otherwise (docs/architecture/investigations-and-tasks.md:155).
GraceHonoured ==
  [][\A a \in stamped : ap[a] = "available" /\ ap'[a] = "deleted" => clock - born[a] > Grace]_vars

(* Liveness. *)

\* A stale access point is reclaimed in the end, unless a task runs on it.
StaleInvestigationReclaimed ==
  \A a \in AccessPoint :
     ap[a] = "available" /\ clock - born[a] > Grace
       ~> ap[a] = "deleted" \/ RunningTasks(owner[a]) # {}
=============================================================================
