----------------------- MODULE ReapInvestigationsProofs -----------------------
(***************************************************************************)
(* Theorems about ReapInvestigations: for any number of investigations,    *)
(* access points and tasks, any grace period, and any failures and killed  *)
(* runs, no file is lost, no directory is orphaned, no task loses its      *)
(* workspace that was there at the recheck, and no access point goes       *)
(* within its grace period.                                                *)
(***************************************************************************)
EXTENDS ReapInvestigations, TLAPS

\* From the recheck to the removal of the access point; from the choice of the stale ones on.
Removing == {"walk", "upload", "rmtree", "deleteAP"}
Settled == {"refresh", "deregister"} \cup Removing

\* A task is placed on an access point of its own investigation.
HomeFits == \A t \in Task : task[t] # "none" => home[t] \in AccessPoint /\ owner[home[t]] = target[t]

\* What is queued has existed, so that its age is known for good, and is old enough.
QueueIsOld ==
  /\ now <= clock
  /\ current # None => current \in queue
  /\ \A a \in queue : ap[a] # "none"
  /\ pc \in Settled => \A a \in queue \cap stamped : now - born[a] > Grace

\* What the backup does not see: files it leaves out, overlooks, or that came after the recheck.
Unseen == lateFiles \cup excluded \cup overlooked

\* Of the directory that is being removed, a file that is not saved is still to be uploaded, or
\* the backup does not see it.
BackupIsAhead ==
  /\ pc \in {"upload", "rmtree"} => files[V] \subseteq walked \cup saved \cup Unseen
  /\ pc = "rmtree" => walked = {}

\* The directory is gone before the access point, or has come back.
DirectoryFirst == pc = "deleteAP" /\ V \in dir => V \in remounted

\* Whoever runs while the workspace is removed came after the recheck.
OnlyLateTasks ==
  pc \in Removing => \A t \in Task : target[t] = V /\ DesiredRunning(t) => t \in late

ReapInv ==
  /\ TypeOK /\ HomeFits /\ QueueIsOld
  /\ BackupIsAhead /\ EveryFileIsKept
  /\ DirectoryFirst /\ DirectoryStaysReachable
  /\ OnlyLateTasks

LEMMA InitReap == Init => ReapInv
<1>. SUFFICES ASSUME Init PROVE ReapInv
  OBVIOUS
<1>1. WorkspaceType
  <2>1. clock \in 0..MaxClock /\ born \in [AccessPoint -> 0..MaxClock]
    BY ClockAssumption DEF Init, WorkspaceInit
  <2>2. ap \in [AccessPoint -> ApStates] /\ stamped \in SUBSET AccessPoint
    BY DEF Init, WorkspaceInit, ApStates
  <2>. QED BY <2>1, <2>2 DEF Init, WorkspaceInit, WorkspaceType, TaskStates
<1>2. TypeOK
  <2>1. now \in 0..MaxClock /\ faults \in 0..FaultBudget
    BY ClockAssumption, FaultAssumption DEF Init
  <2>. QED BY <1>1, <2>1 DEF Init, TypeOK, Stages
<1>3. HomeFits /\ EveryFileIsKept /\ DirectoryStaysReachable
  BY DEF Init, WorkspaceInit, HomeFits, EveryFileIsKept, Unseen, backupVars, DirectoryStaysReachable
<1>4. QueueIsOld /\ BackupIsAhead /\ DirectoryFirst /\ OnlyLateTasks
  BY DEF Init, WorkspaceInit, QueueIsOld, BackupIsAhead, Unseen, backupVars, DirectoryFirst, OnlyLateTasks, Removing,
         Settled
<1>. QED BY <1>2, <1>3, <1>4 DEF ReapInv

-----------------------------------------------------------------------------
(* Steps of the reaper. *)

LEMMA FaultType == TypeOK /\ (NoFault \/ Fault) => faults' \in 0..FaultBudget
BY FaultAssumption DEF TypeOK, NoFault, Fault

\* A step that leaves all but the definitions alone, and what was written and brought back.  A
\* file is no longer overlooked only while it is there.
Looks ==
  /\ UNCHANGED <<clock, fixedVars, efsVars, task, home, written, saved, lateFiles, excluded, remounted>>
  /\ td' \in [Task -> {"none", "active", "inactive"}]
  /\ overlooked' \in SUBSET Task
  /\ \A t \in overlooked \ overlooked' : t \in files[target[t]]

LEMMA LookKeeps ==
  ASSUME ReapInv, Looks, TypeOK', QueueIsOld', BackupIsAhead', DirectoryFirst', OnlyLateTasks'
  PROVE  ReapInv'
<1>1. HomeFits' /\ EveryFileIsKept' /\ DirectoryStaysReachable'
  BY DEF ReapInv, Looks, fixedVars, efsVars, HomeFits, EveryFileIsKept, Unseen, backupVars, DirectoryStaysReachable,
         AvailableFor
<1>. QED BY <1>1 DEF ReapInv

\* The run ends, in one of many ways.
LEMMA EndKeeps == ASSUME ReapInv, Looks, EndRun, NoFault \/ Fault PROVE ReapInv'
<1>1. /\ pc' = "idle" /\ now' = 0 /\ queue' = {} /\ busy' = {} /\ defs' = {} /\ current' = None
      /\ walked' = {} /\ late' = {}
  BY DEF EndRun
<1>2. TypeOK'
  <2>1. TypeOK /\ faults' \in 0..FaultBudget /\ now' \in 0..MaxClock
    BY <1>1, FaultType, ClockAssumption DEF ReapInv
  <2>2. WorkspaceType'
    BY <2>1 DEF TypeOK, WorkspaceType, Looks, fixedVars, efsVars
  <2>. QED BY <1>1, <2>1, <2>2 DEF TypeOK, Stages, Looks
<1>3. now' <= clock'
  BY <1>1, ClockAssumption DEF ReapInv, TypeOK, WorkspaceType, Looks
<1>4. QueueIsOld' /\ BackupIsAhead' /\ DirectoryFirst' /\ OnlyLateTasks'
  BY <1>1, <1>3 DEF QueueIsOld, BackupIsAhead, Unseen, backupVars, DirectoryFirst, OnlyLateTasks, Removing, Settled
<1>. QED BY <1>2, <1>4, LookKeeps

LEMMA ListingKeeps ==
  ASSUME ReapInv, StartRun \/ ListAccessPoints \/ ListAllRunningTasks \/ ListAllTaskDefinitions
  PROVE  ReapInv'
<1>0. TypeOK /\ Looks /\ QueueIsOld /\ current = None
  BY DEF backupVars, ReapInv, TypeOK, WorkspaceType, Looks, StartRun, ListAccessPoints, ListAllRunningTasks,
         ListAllTaskDefinitions, historyVars, workspaceVars, ecsVars
<1>1. CASE EndRun /\ (NoFault \/ Fault)
  BY <1>0, <1>1, EndKeeps
<1>2. CASE /\ pc' \in {"listAccessPoints", "listTasks", "listDefinitions", "refresh"}
           /\ queue' \in SUBSET AccessPoint /\ busy' \in SUBSET Investigation /\ defs' \in SUBSET Task
           /\ now' \in {now, clock} /\ NoFault
           /\ \A a \in queue' : ap[a] # "none"
           /\ pc' = "refresh" => \A a \in queue' : IsInvestigationStale(a) /\ now' = now
           /\ UNCHANGED <<current, walked, late>>
  <2>1. TypeOK'
    BY <1>0, <1>2 DEF TypeOK, WorkspaceType, Stages, Looks, fixedVars, efsVars, NoFault
  <2>2. clock \in Nat /\ clock' = clock /\ ap' = ap /\ born' = born /\ stamped' = stamped
    BY <1>0, ClockAssumption DEF TypeOK, WorkspaceType, Looks, efsVars
  <2>3. now' <= clock'
    BY <1>0, <1>2, <2>2 DEF QueueIsOld
  <2>4. QueueIsOld'
    BY <1>0, <1>2, <2>2, <2>3 DEF QueueIsOld, Settled, Removing, IsInvestigationStale
  <2>5. BackupIsAhead' /\ DirectoryFirst' /\ OnlyLateTasks'
    BY <1>2 DEF BackupIsAhead, Unseen, backupVars, DirectoryFirst, OnlyLateTasks, Removing
  <2>. QED BY <1>0, <2>1, <2>4, <2>5, LookKeeps
<1>3. CASE StartRun
  BY <1>0, <1>2, <1>3 DEF StartRun, historyVars, NoFault, TypeOK, QueueIsOld
<1>4. CASE ListAccessPoints
  BY <1>0, <1>1, <1>2, <1>4 DEF ListAccessPoints, TypeOK
<1>5. CASE ListAllRunningTasks
  BY <1>0, <1>1, <1>2, <1>5 DEF ListAllRunningTasks, TypeOK, QueueIsOld
<1>6. CASE ListAllTaskDefinitions
  BY <1>0, <1>1, <1>2, <1>6 DEF ListAllTaskDefinitions, TypeOK, QueueIsOld
<1>. QED BY <1>3, <1>4, <1>5, <1>6

\* The next access point, or the end of the run.
LEMMA LeaveKeeps ==
  ASSUME ReapInv, Looks, NEW a \in queue, Leave(a), pc \in Settled, NoFault \/ Fault
  PROVE  ReapInv'
<1>1. CASE queue = {a}
  BY <1>1, EndKeeps DEF Leave
<1>2. CASE queue # {a}
  <2>0. TypeOK /\ QueueIsOld
    BY DEF ReapInv
  <2>1. /\ queue' = queue \ {a} /\ current' = None /\ late' = {} /\ pc' = "refresh"
        /\ UNCHANGED <<now, busy, defs, walked>>
    BY <1>2 DEF Leave
  <2>2. faults' \in 0..FaultBudget
    BY <2>0, FaultType
  <2>3. WorkspaceType'
    BY <2>0 DEF TypeOK, WorkspaceType, Looks, fixedVars, efsVars
  <2>4. TypeOK'
    BY <2>0, <2>1, <2>2, <2>3 DEF TypeOK, Stages, Looks
  <2>5. QueueIsOld'
    BY <2>0, <2>1 DEF QueueIsOld, Looks, efsVars, Settled
  <2>6. BackupIsAhead' /\ DirectoryFirst' /\ OnlyLateTasks'
    BY <2>1 DEF BackupIsAhead, Unseen, backupVars, DirectoryFirst, OnlyLateTasks, Removing
  <2>. QED BY <2>4, <2>5, <2>6, LookKeeps
<1>. QED BY <1>1, <1>2

LEMMA RecheckKeeps == ASSUME ReapInv, ListTasksByInvestigation PROVE ReapInv'
<1>0. TypeOK /\ Looks /\ QueueIsOld /\ pc \in Settled
  BY DEF backupVars, ReapInv, TypeOK, WorkspaceType, Looks, ListTasksByInvestigation, workspaceVars, ecsVars,
         Settled
<1>1. CASE \E a \in queue : Leave(a) /\ (NoFault \/ Fault)
  BY <1>0, <1>1, LeaveKeeps
<1>2. ASSUME NEW a \in queue, RunningTasks(owner[a]) = {}, NoFault, current' = a, pc' = "walk",
             UNCHANGED <<now, queue, busy, defs, walked, late>>
      PROVE  ReapInv'
  <2>1. WorkspaceType'
    BY <1>0 DEF TypeOK, WorkspaceType, Looks, fixedVars, efsVars
  <2>2. TypeOK'
    BY <1>0, <1>2, <2>1, NoneAssumption DEF TypeOK, Stages, Looks, NoFault
  <2>3. QueueIsOld'
    BY <1>0, <1>2 DEF QueueIsOld, Looks, efsVars, Settled
  <2>4. BackupIsAhead' /\ DirectoryFirst'
    BY <1>2 DEF BackupIsAhead, Unseen, backupVars, DirectoryFirst
  <2>5. OnlyLateTasks'
    BY <1>0, <1>2 DEF OnlyLateTasks, RunningTasks, DesiredRunning, V, Looks, fixedVars
  <2>. QED BY <1>0, <2>2, <2>3, <2>4, <2>5, LookKeeps
<1>. QED BY <1>1, <1>2 DEF ListTasksByInvestigation

\* A file system operation on the directory of V keeps what does not concern it.
LEMMA RemovalType ==
  ASSUME TypeOK, pc \in Removing
  PROVE  current \in AccessPoint /\ V \in Investigation
BY DEF TypeOK, WorkspaceType, Removing, V

\* What the listing of the directory does not show is left out or overlooked.
LEMMA ListingIsAhead ==
  ASSUME ReapInv, Listing, V \in Investigation, UNCHANGED <<files, target, saved, lateFiles, excluded>>
  PROVE  /\ walked' \in SUBSET Task /\ overlooked' \in SUBSET Task
         /\ files'[V] \subseteq walked' \cup saved' \cup Unseen'
         /\ \A t \in overlooked \ overlooked' : t \in files[target[t]]
         /\ NoFault \/ Fault
<1>1. files[V] \in SUBSET Task /\ overlooked \in SUBSET Task
  BY DEF ReapInv, TypeOK, WorkspaceType
<1>2. PICK hidden \in SUBSET files[V] :
        /\ IF hidden = {} THEN NoFault ELSE Fault
        /\ walked' = files[V] \ (excluded \cup hidden)
        /\ overlooked' = (overlooked \ {t \in files[V] : target[t] = V}) \cup hidden
  BY DEF Listing
<1>3. walked' \in SUBSET Task /\ overlooked' \in SUBSET Task
  BY <1>1, <1>2
<1>4. files'[V] \subseteq walked' \cup saved' \cup Unseen'
  BY <1>2 DEF Unseen
<1>5. \A t \in overlooked \ overlooked' : t \in files[target[t]]
  BY <1>2
<1>. QED BY <1>2, <1>3, <1>4, <1>5

LEMMA WalkKeeps == ASSUME ReapInv, WalkDirectory PROVE ReapInv'
<1>0. /\ TypeOK /\ QueueIsOld /\ OnlyLateTasks /\ pc = "walk" /\ current \in AccessPoint
      /\ V \in Investigation /\ V' = V
      /\ UNCHANGED <<workspaceVars, now, queue, busy, defs, current, late, lateFiles, remounted, excluded>>
  BY RemovalType DEF ReapInv, TypeOK, WalkDirectory, Removing, V, workspaceVars, fixedVars
<1>1. /\ pc' \in {"upload", "rmtree"} /\ (pc' = "rmtree" => walked' = {}) /\ Listing
      \/ /\ pc' = "deleteAP" /\ V \notin dir /\ NoFault /\ UNCHANGED <<walked, overlooked>>
      \/ /\ pc' = "deregister" /\ Fault /\ UNCHANGED <<walked, overlooked>>
  BY DEF WalkDirectory
<1>2. /\ walked' \in SUBSET Task /\ overlooked' \in SUBSET Task
      /\ pc' \in {"upload", "rmtree"} => files'[V] \subseteq walked' \cup saved' \cup Unseen'
      /\ \A t \in overlooked \ overlooked' : t \in files[target[t]]
      /\ NoFault \/ Fault
  <2>1. CASE Listing
    BY <1>0, <1>1, <2>1, ListingIsAhead DEF workspaceVars, efsVars, fixedVars
  <2>2. CASE pc' \notin {"upload", "rmtree"} /\ UNCHANGED <<walked, overlooked>> /\ (NoFault \/ Fault)
    BY <1>0, <2>2 DEF TypeOK
  <2>. QED BY <1>1, <2>1, <2>2
<1>9. faults' \in 0..FaultBudget
  BY <1>0, <1>2, FaultType
<1>10. Looks
  BY <1>0, <1>2 DEF Looks, TypeOK, WorkspaceType, workspaceVars, ecsVars
<1>3. TypeOK'
  <2>1. WorkspaceType'
    BY <1>0 DEF TypeOK, WorkspaceType, workspaceVars, fixedVars, efsVars, ecsVars
  <2>. QED BY <1>0, <1>1, <1>2, <1>9, <1>10, <2>1, NoneAssumption DEF TypeOK, Stages, Looks
<1>4. QueueIsOld'
  BY <1>0, <1>1, <1>10 DEF QueueIsOld, Looks, efsVars, Settled, Removing
<1>5. BackupIsAhead' /\ DirectoryFirst'
  BY <1>0, <1>1, <1>2, <1>10 DEF BackupIsAhead, Unseen, backupVars, DirectoryFirst, Looks, efsVars
<1>6. OnlyLateTasks'
  BY <1>0, <1>1, <1>10 DEF OnlyLateTasks, Looks, fixedVars, DesiredRunning, Removing
<1>. QED BY <1>10, <1>3, <1>4, <1>5, <1>6, LookKeeps

LEMMA UploadKeeps == ASSUME ReapInv, UploadFile PROVE ReapInv'
<1>0. /\ TypeOK /\ QueueIsOld /\ OnlyLateTasks /\ HomeFits /\ pc = "upload"
      /\ files[V] \subseteq walked \cup saved \cup Unseen
      /\ current \in AccessPoint /\ V \in Investigation
      /\ V' = V
      /\ UNCHANGED <<clock, fixedVars, efsVars, ecsVars, written, now, queue, busy, defs, current, historyVars>>
  BY RemovalType DEF ReapInv, UploadFile, BackupIsAhead, Unseen, backupVars, Removing, V, fixedVars
<1>1. /\ pc' \in {"upload", "rmtree", "deregister"}
      /\ pc' \in {"upload", "rmtree"} => files[V] \subseteq walked' \cup saved' \cup Unseen
      /\ pc' = "rmtree" => walked' = {}
      /\ walked' \in SUBSET Task
      /\ saved' \in SUBSET Task /\ saved \subseteq saved'
  BY <1>0 DEF UploadFile, TypeOK, WorkspaceType
<1>2. TypeOK'
  <2>1. faults' \in 0..FaultBudget
    BY <1>0, FaultType DEF UploadFile
  <2>2. WorkspaceType'
    BY <1>0, <1>1 DEF TypeOK, WorkspaceType, fixedVars, efsVars, ecsVars
  <2>. QED BY <1>0, <1>1, <2>1, <2>2, NoneAssumption DEF backupVars, TypeOK, Stages, historyVars
<1>3. QueueIsOld'
  BY <1>0, <1>1 DEF QueueIsOld, efsVars, Settled, Removing
<1>4. BackupIsAhead' /\ DirectoryFirst'
  BY <1>0, <1>1 DEF BackupIsAhead, Unseen, backupVars, DirectoryFirst, efsVars, historyVars
<1>5. OnlyLateTasks'
  BY <1>0, <1>1 DEF OnlyLateTasks, fixedVars, ecsVars, historyVars, DesiredRunning, Removing
<1>6. HomeFits' /\ DirectoryStaysReachable'
  BY <1>0 DEF ReapInv, HomeFits, DirectoryStaysReachable, AvailableFor, fixedVars, efsVars,
              ecsVars, historyVars
<1>7. EveryFileIsKept'
  BY <1>0, <1>1 DEF ReapInv, EveryFileIsKept, Unseen, backupVars, fixedVars, efsVars, historyVars
<1>. QED BY <1>2, <1>3, <1>4, <1>5, <1>6, <1>7 DEF ReapInv

\* What the directory loses is saved, or came late.
LEMMA RemoveKeeps == ASSUME ReapInv, RemoveTree PROVE ReapInv'
<1>0. /\ TypeOK /\ QueueIsOld /\ OnlyLateTasks /\ HomeFits /\ EveryFileIsKept /\ pc = "rmtree"
      /\ DirectoryStaysReachable
      /\ files[V] \subseteq saved \cup Unseen
      /\ current \in AccessPoint /\ V \in Investigation
      /\ V' = V
      /\ UNCHANGED <<clock, fixedVars, ap, born, stamped, ecsVars, written, saved,
                     now, queue, busy, defs, current, walked, historyVars>>
  BY RemovalType DEF ReapInv, RemoveTree, BackupIsAhead, Unseen, backupVars, Removing, V, fixedVars
<1>1. \/ pc' = "deleteAP" /\ dir' = dir \ {V}
      \/ pc' = "deregister" /\ dir' = dir
  BY DEF RemoveTree
<1>2. PICK kept \in SUBSET files[V] : files' = [files EXCEPT ![V] = kept]
  BY DEF RemoveTree
<1>3. files \in [Investigation -> SUBSET Task] /\ target \in [Task -> Investigation]
  BY <1>0 DEF TypeOK, WorkspaceType
<1>4. files' \in [Investigation -> SUBSET Task]
  BY <1>0, <1>2, <1>3
<1>5. TypeOK'
  <2>1. faults' \in 0..FaultBudget
    BY <1>0, FaultType DEF RemoveTree
  <2>2. WorkspaceType'
    BY <1>0, <1>1, <1>4 DEF TypeOK, WorkspaceType, fixedVars, ecsVars
  <2>. QED BY <1>0, <1>1, <2>1, <2>2, NoneAssumption DEF backupVars, TypeOK, Stages, historyVars
<1>6. QueueIsOld'
  BY <1>0, <1>1 DEF QueueIsOld, Settled, Removing
<1>7. BackupIsAhead' /\ DirectoryFirst'
  BY <1>0, <1>1 DEF BackupIsAhead, Unseen, backupVars, DirectoryFirst
<1>8. OnlyLateTasks'
  BY <1>0, <1>1 DEF OnlyLateTasks, fixedVars, ecsVars, historyVars, DesiredRunning, Removing
<1>9. HomeFits' /\ DirectoryStaysReachable'
  BY <1>0, <1>1 DEF HomeFits, DirectoryStaysReachable, AvailableFor, fixedVars, ecsVars, historyVars
<1>10. EveryFileIsKept'
  <2>. SUFFICES ASSUME NEW t \in written PROVE t \in files'[target[t]] \cup saved \cup Unseen
    BY <1>0 DEF EveryFileIsKept, Unseen, backupVars, fixedVars, historyVars
  <2>1. t \in files[target[t]] \cup saved \cup Unseen /\ target[t] \in Investigation
    BY <1>0, <1>3 DEF EveryFileIsKept, Unseen, backupVars, TypeOK, WorkspaceType
  <2>. QED BY <1>0, <1>2, <1>3, <2>1
<1>. QED BY <1>5, <1>6, <1>7, <1>8, <1>9, <1>10 DEF ReapInv

LEMMA DeleteKeeps == ASSUME ReapInv, DeleteAccessPoint PROVE ReapInv'
<1>0. /\ TypeOK /\ QueueIsOld /\ HomeFits /\ EveryFileIsKept /\ pc = "deleteAP" /\ pc' = "deregister"
      /\ DirectoryStaysReachable /\ DirectoryFirst
      /\ current \in AccessPoint /\ V \in Investigation
      /\ UNCHANGED <<clock, fixedVars, born, stamped, dir, files, ecsVars, written, saved,
                     now, queue, busy, defs, current, walked, historyVars>>
  BY RemovalType DEF ReapInv, DeleteAccessPoint, Removing
<1>1. ap' = [ap EXCEPT ![current] = "deleted"] \/ ap' = ap
  BY DEF DeleteAccessPoint
<1>2. ap \in [AccessPoint -> ApStates] /\ ap' \in [AccessPoint -> ApStates]
  BY <1>0, <1>1 DEF TypeOK, WorkspaceType, ApStates
<1>3. TypeOK'
  <2>1. faults' \in 0..FaultBudget
    BY <1>0, FaultType DEF DeleteAccessPoint
  <2>2. WorkspaceType'
    BY <1>0, <1>2 DEF TypeOK, WorkspaceType, fixedVars, ecsVars
  <2>. QED BY <1>0, <2>1, <2>2, NoneAssumption DEF backupVars, TypeOK, Stages, historyVars
<1>4. QueueIsOld'
  <2>1. \A a \in queue : ap'[a] # "none"
    BY <1>0, <1>1, <1>2 DEF QueueIsOld, TypeOK
  <2>. QED BY <1>0, <2>1 DEF QueueIsOld, Settled, Removing
<1>5. BackupIsAhead' /\ DirectoryFirst' /\ OnlyLateTasks'
  BY <1>0 DEF BackupIsAhead, Unseen, backupVars, DirectoryFirst, OnlyLateTasks, Removing
<1>6. HomeFits' /\ EveryFileIsKept'
  BY <1>0 DEF HomeFits, EveryFileIsKept, Unseen, backupVars, fixedVars, ecsVars, historyVars
<1>7. DirectoryStaysReachable'
  <2>. SUFFICES ASSUME NEW v \in dir, v \notin remounted
                PROVE  \E a \in AccessPoint : owner[a] = v /\ ap'[a] = "available"
    BY <1>0 DEF DirectoryStaysReachable, AvailableFor, fixedVars, historyVars
  <2>1. PICK a \in AccessPoint : owner[a] = v /\ ap[a] = "available"
    BY <1>0 DEF DirectoryStaysReachable, AvailableFor
  <2>2. v # V
    BY <1>0 DEF DirectoryFirst
  <2>3. a # current
    BY <2>1, <2>2 DEF V
  <2>4. ap'[a] = ap[a]
    BY <1>1, <1>2, <2>3
  <2>. QED BY <2>1, <2>4
<1>. QED BY <1>3, <1>4, <1>5, <1>6, <1>7 DEF ReapInv

LEMMA DeregisterKeeps == ASSUME ReapInv, DeleteTaskDefinitions PROVE ReapInv'
<1>1. TypeOK /\ QueueIsOld /\ pc \in Settled /\ current \in queue /\ (NoFault \/ Fault)
  BY DEF ReapInv, DeleteTaskDefinitions, TypeOK, QueueIsOld, Settled
<1>2. td' \in [Task -> {"none", "active", "inactive"}]
  BY <1>1 DEF DeleteTaskDefinitions, TypeOK, WorkspaceType
<1>3. Looks
  BY <1>1, <1>2 DEF TypeOK, backupVars, DeleteTaskDefinitions, Looks
<1>. QED BY <1>1, <1>3, LeaveKeeps DEF DeleteTaskDefinitions

LEMMA TimeOutKeeps == ASSUME ReapInv, RunTimesOut PROVE ReapInv'
<1>1. Looks
  BY DEF backupVars, ReapInv, TypeOK, WorkspaceType, RunTimesOut, Looks, workspaceVars, ecsVars
<1>. QED BY <1>1, EndKeeps DEF RunTimesOut

-----------------------------------------------------------------------------
(* Steps of the tasks. *)

\* The reaper rests.
Rests == UNCHANGED <<reaperVars, faults>>

LEMMA TickKeeps == ASSUME ReapInv, Rests, Tick, UNCHANGED historyVars PROVE ReapInv'
<1>0. /\ ReapInv /\ TypeOK /\ clock \in Nat /\ clock' = clock + 1 /\ clock' \in 0..MaxClock /\ now \in Nat
      /\ UNCHANGED <<fixedVars, efsVars, ecsVars, written, saved, reaperVars, faults, historyVars>>
  BY ClockAssumption DEF ReapInv, TypeOK, WorkspaceType, Tick, Rests
<1>1. TypeOK'
  <2>1. WorkspaceType'
    BY <1>0 DEF TypeOK, WorkspaceType, fixedVars, efsVars, ecsVars
  <2>. QED BY <1>0, <2>1 DEF backupVars, TypeOK, reaperVars, historyVars
<1>2. QueueIsOld'
  BY <1>0 DEF ReapInv, QueueIsOld, reaperVars, efsVars
<1>3. BackupIsAhead' /\ DirectoryFirst' /\ OnlyLateTasks'
  BY <1>0 DEF ReapInv, BackupIsAhead, Unseen, backupVars, DirectoryFirst, OnlyLateTasks, V, DesiredRunning,
              reaperVars, efsVars, ecsVars, fixedVars, historyVars
<1>4. HomeFits' /\ EveryFileIsKept' /\ DirectoryStaysReachable'
  BY <1>0 DEF ReapInv, HomeFits, EveryFileIsKept, Unseen, backupVars, DirectoryStaysReachable, AvailableFor,
              efsVars, ecsVars, fixedVars, historyVars
<1>. QED BY <1>1, <1>2, <1>3, <1>4 DEF ReapInv

LEMMA PlaceKeeps ==
  ASSUME ReapInv, Rests, NEW t \in Task, Place(t), UNCHANGED historyVars
  PROVE  ReapInv'
<1>0. /\ ReapInv /\ TypeOK /\ task[t] = "none"
      /\ task' = [task EXCEPT ![t] = "placed"]
      /\ td' = [td EXCEPT ![t] = "active"]
      /\ UNCHANGED <<clock, fixedVars, dir, files, written, saved, reaperVars, faults, historyVars>>
  BY DEF ReapInv, Place, Rests
<1>1. PICK a \in AccessPoint :
        /\ owner[a] = target[t]
        /\ \/ ap[a] = "available" /\ UNCHANGED <<ap, born, stamped>>
           \/ /\ ap[a] = "none"
              /\ ap' = [ap EXCEPT ![a] = "available"]
              /\ born' = [born EXCEPT ![a] = clock]
              /\ stamped' = stamped \cup {a}
        /\ home' = [home EXCEPT ![t] = a]
  BY DEF Place
<1>2. WorkspaceType
  BY <1>0 DEF TypeOK
<1>3. ap' \in [AccessPoint -> ApStates] /\ born' \in [AccessPoint -> 0..MaxClock] /\ stamped' \in SUBSET AccessPoint
  BY <1>1, <1>2 DEF WorkspaceType, ApStates
<1>4. task' \in [Task -> TaskStates] /\ home' \in [Task -> AccessPoint \cup {None}]
      /\ td' \in [Task -> {"none", "active", "inactive"}]
  BY <1>0, <1>1, <1>2 DEF WorkspaceType, TaskStates
<1>5. TypeOK'
  <2>1. WorkspaceType'
    BY <1>0, <1>2, <1>3, <1>4 DEF WorkspaceType, fixedVars
  <2>. QED BY <1>0, <2>1 DEF backupVars, TypeOK, reaperVars, historyVars
<1>6. QueueIsOld'
  <2>1. \A b \in queue : b # a \/ UNCHANGED <<ap, born, stamped>>
    BY <1>0, <1>1 DEF ReapInv, QueueIsOld
  <2>2. \A b \in queue : ap'[b] = ap[b] /\ born'[b] = born[b] /\ (b \in stamped' <=> b \in stamped)
    BY <1>0, <1>1, <1>2, <2>1 DEF WorkspaceType, TypeOK
  <2>. QED BY <1>0, <2>2 DEF ReapInv, QueueIsOld, reaperVars
<1>7. BackupIsAhead' /\ DirectoryFirst'
  BY <1>0 DEF ReapInv, BackupIsAhead, Unseen, backupVars, DirectoryFirst, V, reaperVars, fixedVars, historyVars
<1>8. OnlyLateTasks'
  BY <1>0, <1>2 DEF ReapInv, WorkspaceType, OnlyLateTasks, V, DesiredRunning, reaperVars,
                    fixedVars, historyVars
<1>9. HomeFits'
  BY <1>0, <1>1, <1>2 DEF ReapInv, WorkspaceType, HomeFits, fixedVars
<1>10. EveryFileIsKept'
  BY <1>0 DEF ReapInv, EveryFileIsKept, Unseen, backupVars, fixedVars, historyVars
<1>11. DirectoryStaysReachable'
  <2>1. \A b \in AccessPoint : ap[b] = "available" => ap'[b] = "available"
    BY <1>1, <1>2 DEF WorkspaceType
  <2>. QED BY <1>0, <2>1 DEF ReapInv, DirectoryStaysReachable, AvailableFor, fixedVars, historyVars
<1>. QED BY <1>5, <1>6, <1>7, <1>8, <1>9, <1>10, <1>11 DEF ReapInv

\* A status changes, to one of a task that was placed; a running one must have run, or be late.
LEMMA StatusKeeps ==
  ASSUME ReapInv, Rests,
         UNCHANGED <<clock, fixedVars, efsVars, home, td, written, saved, lateFiles, remounted, backupVars>>,
         NEW t \in Task, NEW s \in TaskStates,
         task' = [task EXCEPT ![t] = s],
         task[t] # "none",
         late' \in SUBSET Task, late \subseteq late',
         pc \in Removing /\ target[t] = V /\ s \in {"starting", "running"} => DesiredRunning(t) \/ t \in late'
  PROVE  ReapInv'
<1>0. TypeOK /\ WorkspaceType /\ task \in [Task -> TaskStates]
  BY DEF ReapInv, TypeOK, WorkspaceType
<1>1. TypeOK'
  <2>1. WorkspaceType'
    BY <1>0 DEF WorkspaceType, fixedVars, efsVars
  <2>. QED BY <1>0, <2>1 DEF backupVars, TypeOK, Rests, reaperVars
<1>2. QueueIsOld' /\ BackupIsAhead' /\ DirectoryFirst'
  BY DEF ReapInv, QueueIsOld, BackupIsAhead, Unseen, backupVars, DirectoryFirst, V, Rests, reaperVars, fixedVars,
         efsVars
<1>3. OnlyLateTasks'
  <2>. SUFFICES ASSUME pc \in Removing, NEW u \in Task, target[u] = V, task'[u] \in {"starting", "running"}
                PROVE  u \in late'
    BY DEF OnlyLateTasks, DesiredRunning, V, Rests, reaperVars, fixedVars
  <2>1. OnlyLateTasks
    BY DEF ReapInv
  <2>2. CASE u = t
    BY <1>0, <2>1, <2>2 DEF OnlyLateTasks
  <2>3. CASE u # t
    BY <1>0, <2>1, <2>3 DEF OnlyLateTasks, DesiredRunning
  <2>. QED BY <2>2, <2>3
<1>4. HomeFits'
  BY <1>0 DEF ReapInv, HomeFits, fixedVars
<1>5. EveryFileIsKept' /\ DirectoryStaysReachable'
  BY DEF ReapInv, EveryFileIsKept, Unseen, backupVars, DirectoryStaysReachable, AvailableFor, fixedVars, efsVars
<1>. QED BY <1>1, <1>2, <1>3, <1>4, <1>5 DEF ReapInv

LEMMA StopKeeps ==
  ASSUME ReapInv, Rests, NEW t \in Task, TaskToldToStop(t) \/ TaskStops(t), UNCHANGED historyVars
  PROVE  ReapInv'
<1>0. TypeOK /\ task \in [Task -> TaskStates]
  BY DEF ReapInv, TypeOK, WorkspaceType
<1>1. PICK s \in {"stopping", "stopped"} : task' = [task EXCEPT ![t] = s]
  BY <1>0 DEF TaskToldToStop, TaskStops, StopTaskEffect, DesiredRunning
<1>2. task[t] # "none"
  BY DEF TaskToldToStop, TaskStops, DesiredRunning
<1>3. UNCHANGED <<clock, fixedVars, efsVars, home, td, written, saved, lateFiles, remounted, backupVars>>
      /\ late' = late /\ late \in SUBSET Task
  BY <1>0 DEF TaskToldToStop, TaskStops, historyVars, TypeOK
<1>. QED BY <1>1, <1>2, <1>3, StatusKeeps DEF TaskStates

LEMMA LaunchKeeps ==
  ASSUME ReapInv, Rests, NEW t \in Task, Launch(t),
         late' = IF Rechecked(target[t]) THEN late \cup {t} ELSE late,
         UNCHANGED <<lateFiles, remounted, backupVars>>
  PROVE  ReapInv'
<1>0. TypeOK /\ late' \in SUBSET Task /\ late \subseteq late'
  BY DEF ReapInv, TypeOK
<1>1. PICK s \in {"starting", "stopped"} : task' = [task EXCEPT ![t] = s]
  BY DEF Launch
<1>2. task[t] # "none" /\ UNCHANGED <<clock, fixedVars, efsVars, home, td, written, saved>>
  BY DEF Launch
<1>3. pc \in Removing /\ target[t] = V => t \in late'
  BY DEF Removing, Rechecked
<1>. QED BY <1>0, <1>1, <1>2, <1>3, StatusKeeps DEF TaskStates

\* Mounting brings the directory back, reachable through the access point of the task.
LEMMA StartKeeps ==
  ASSUME ReapInv, Rests, NEW t \in Task, TaskStarts(t),
         remounted' = IF pc = "deleteAP" /\ target[t] = V THEN remounted \cup {V} ELSE remounted,
         UNCHANGED <<late, lateFiles, backupVars>>
  PROVE  ReapInv'
<1>0. /\ TypeOK /\ WorkspaceType /\ HomeFits /\ DirectoryStaysReachable /\ task[t] = "starting"
      /\ target[t] \in Investigation /\ task \in [Task -> TaskStates]
      /\ UNCHANGED <<clock, fixedVars, ap, born, stamped, files, home, td, written, saved>>
  BY DEF ReapInv, TypeOK, WorkspaceType, TaskStarts
<1>1. \/ ap[home[t]] = "available" /\ task' = [task EXCEPT ![t] = "running"] /\ dir' = dir \cup {target[t]}
      \/ task' = [task EXCEPT ![t] = "stopped"] /\ dir' = dir
  BY DEF TaskStarts
<1>2. remounted' \in SUBSET Investigation /\ remounted \subseteq remounted'
  BY <1>0 DEF TypeOK
<1>3. TypeOK'
  <2>1. WorkspaceType'
    BY <1>0, <1>1 DEF WorkspaceType, TaskStates, fixedVars
  <2>. QED BY <1>0, <1>2, <2>1 DEF backupVars, TypeOK, Rests, reaperVars
<1>4. QueueIsOld' /\ BackupIsAhead'
  BY <1>0 DEF ReapInv, QueueIsOld, BackupIsAhead, Unseen, backupVars, V, Rests, reaperVars, fixedVars
<1>5. DirectoryFirst'
  BY <1>0, <1>1, <1>2 DEF ReapInv, DirectoryFirst, V, Rests, reaperVars, fixedVars
<1>6. OnlyLateTasks'
  BY <1>0, <1>1 DEF ReapInv, OnlyLateTasks, DesiredRunning, V, Rests, reaperVars, fixedVars
<1>7. HomeFits'
  BY <1>0, <1>1 DEF HomeFits, fixedVars
<1>8. EveryFileIsKept'
  BY <1>0 DEF ReapInv, EveryFileIsKept, Unseen, backupVars, fixedVars
<1>9. DirectoryStaysReachable'
  <2>1. ap[home[t]] = "available" => home[t] \in AvailableFor(target[t])
    BY <1>0 DEF HomeFits, AvailableFor
  <2>2. \A v \in dir' : AvailableFor(v) # {} \/ v \in remounted'
    BY <1>0, <1>1, <1>2, <2>1 DEF DirectoryStaysReachable
  <2>. QED BY <1>0, <2>2 DEF DirectoryStaysReachable, AvailableFor, fixedVars
<1>. QED BY <1>3, <1>4, <1>5, <1>6, <1>7, <1>8, <1>9 DEF ReapInv

LEMMA WriteKeeps ==
  ASSUME ReapInv, Rests, NEW t \in Task, WriteFile(t),
         lateFiles' = IF Rechecked(target[t]) THEN lateFiles \cup {t} ELSE lateFiles,
         UNCHANGED <<late, remounted, backupVars>>
  PROVE  ReapInv'
<1>0. /\ TypeOK /\ WorkspaceType /\ EveryFileIsKept
      /\ files \in [Investigation -> SUBSET Task] /\ target \in [Task -> Investigation]
      /\ files' = [files EXCEPT ![target[t]] = @ \cup {t}]
      /\ written' = written \cup {t}
      /\ UNCHANGED <<clock, fixedVars, ap, born, stamped, dir, ecsVars, saved>>
  BY DEF ReapInv, TypeOK, WorkspaceType, WriteFile
<1>1. files' \in [Investigation -> SUBSET Task] /\ written' \in SUBSET Task
      /\ lateFiles' \in SUBSET Task /\ lateFiles \subseteq lateFiles'
  BY <1>0 DEF TypeOK, WorkspaceType
<1>7. Unseen \subseteq Unseen' /\ lateFiles' \subseteq Unseen'
  BY <1>1 DEF Unseen, backupVars
<1>2. TypeOK'
  <2>1. WorkspaceType'
    BY <1>0, <1>1 DEF WorkspaceType, fixedVars, ecsVars
  <2>. QED BY <1>0, <1>1, <2>1 DEF backupVars, TypeOK, Rests, reaperVars
<1>3. QueueIsOld' /\ DirectoryFirst'
  BY <1>0 DEF ReapInv, QueueIsOld, DirectoryFirst, V, Rests, reaperVars, fixedVars
<1>4. BackupIsAhead'
  <2>1. UNCHANGED <<pc, current, walked, saved>> /\ V' = V
    BY <1>0 DEF V, Rests, reaperVars, fixedVars
  <2>2. pc = "rmtree" => walked = {}
    BY DEF ReapInv, BackupIsAhead
  <2>3. ASSUME pc \in {"upload", "rmtree"} PROVE files'[V] \subseteq walked \cup saved \cup Unseen'
    <3>1. files[V] \subseteq walked \cup saved \cup Unseen
      BY <2>3 DEF ReapInv, BackupIsAhead
    <3>2. V \in Investigation
      BY <1>0, <2>3, RemovalType DEF Removing
    <3>3. CASE target[t] = V
      <4>1. t \in lateFiles'
        BY <2>3, <3>3 DEF Rechecked
      <4>. QED BY <1>0, <1>1, <1>7, <3>1, <3>2, <3>3, <4>1 DEF Unseen
    <3>4. CASE target[t] # V
      BY <1>0, <1>1, <1>7, <3>1, <3>2, <3>4
    <3>. QED BY <3>3, <3>4
  <2>. QED BY <2>1, <2>2, <2>3 DEF BackupIsAhead
<1>5. OnlyLateTasks' /\ HomeFits' /\ DirectoryStaysReachable'
  BY <1>0 DEF ReapInv, OnlyLateTasks, HomeFits, DirectoryStaysReachable, AvailableFor,
              DesiredRunning, V,
              Rests, reaperVars, fixedVars, ecsVars
<1>6. EveryFileIsKept'
  <2>. SUFFICES ASSUME NEW u \in written' PROVE u \in files'[target[u]] \cup saved \cup Unseen'
    BY <1>0 DEF EveryFileIsKept, Unseen, backupVars, fixedVars
  <2>1. u \in Task /\ target[u] \in Investigation
    BY <1>0, <1>1
  <2>2. u = t \/ u \in files[target[u]] \cup saved \cup Unseen
    BY <1>0 DEF EveryFileIsKept, Unseen
  <2>. QED BY <1>0, <1>1, <1>7, <2>1, <2>2
<1>. QED BY <1>2, <1>3, <1>4, <1>5, <1>6 DEF ReapInv

-----------------------------------------------------------------------------

LEMMA ReapInduction == ReapInv /\ [Next]_vars => ReapInv'
<1>. SUFFICES ASSUME ReapInv, [Next]_vars PROVE ReapInv'
  OBVIOUS
<1>1. CASE Reap
  BY <1>1, ListingKeeps, RecheckKeeps, WalkKeeps, UploadKeeps, RemoveKeeps, DeleteKeeps,
     DeregisterKeeps DEF Reap
<1>2. CASE RunTimesOut
  BY <1>2, TimeOutKeeps
<1>3. CASE Environment
  <2>1. Rests
    BY <1>3 DEF Environment, Rests
  <2>. QED BY <1>3, <2>1, TickKeeps, PlaceKeeps, LaunchKeeps, StartKeeps, WriteKeeps,
              StopKeeps DEF Environment
<1>4. CASE UNCHANGED vars
  <2>1. UNCHANGED <<workspaceVars, reaperVars, historyVars, faults>>
    BY <1>4 DEF vars
  <2>2. TypeOK'
    BY <2>1 DEF backupVars, ReapInv, TypeOK, WorkspaceType, workspaceVars, fixedVars, efsVars, ecsVars,
                reaperVars, historyVars
  <2>3. QueueIsOld' /\ BackupIsAhead' /\ DirectoryFirst' /\ OnlyLateTasks'
    BY <2>1 DEF ReapInv, QueueIsOld, BackupIsAhead, Unseen, backupVars, DirectoryFirst, OnlyLateTasks, V,
                DesiredRunning,
                workspaceVars, fixedVars, efsVars, ecsVars, reaperVars, historyVars
  <2>4. HomeFits' /\ EveryFileIsKept' /\ DirectoryStaysReachable'
    BY <2>1 DEF ReapInv, HomeFits, EveryFileIsKept, Unseen, backupVars, DirectoryStaysReachable, AvailableFor,
                workspaceVars, fixedVars, efsVars, ecsVars, historyVars
  <2>. QED BY <2>2, <2>3, <2>4 DEF ReapInv
<1>. QED BY <1>1, <1>2, <1>3, <1>4 DEF Next

\* The invariant the four theorems below rest on holds throughout (handler.py as a whole).
THEOREM ReapInvariant == Spec => []ReapInv
<1>1. Init => ReapInv
  BY InitReap
<1>2. ReapInv /\ [Next]_vars => ReapInv'
  BY ReapInduction
<1>. QED BY <1>1, <1>2, PTL DEF Spec

\* Every file that is removed was uploaded before, whatever fails and wherever a run is killed,
\* except those the backup does not see: .config/ocm, .kube, what is not a regular file, a
\* directory it could not list, and what was written after the recheck (handler.py 583-707).
THEOREM NoFileIsLost == Spec => []EveryFileIsKept
<1>1. ReapInv => EveryFileIsKept
  BY DEF ReapInv
<1>. QED BY <1>1, ReapInvariant, PTL

\* No directory is orphaned: the access point goes after it (handler.py 468).
THEOREM NoDirectoryIsOrphaned == Spec => []DirectoryStaysReachable
<1>1. ReapInv => DirectoryStaysReachable
  BY DEF ReapInv
<1>. QED BY <1>1, ReapInvariant, PTL

\* A task that loses its workspace was launched after the recheck (handler.py 207-219).
THEOREM TasksAreSpared == Spec => ReapSparesTasks
<1>1. ReapInv /\ [Next]_vars =>
        [\A t \in Task :
           /\ DesiredRunning(t)
           /\ pc \in {"rmtree", "deleteAP"} /\ V = target[t]
           /\ dir' # dir \/ ap' # ap
           /\ pc' # pc
         => t \in late]_vars
  BY DEF ReapInv, OnlyLateTasks, Removing
<1>. QED BY <1>1, ReapInvariant, PTL DEF Spec, ReapSparesTasks

\* An access point of known age is only deleted past its grace period, although its age was
\* judged when the run began (handler.py 293-312).
THEOREM GraceIsHonoured == Spec => GraceHonoured
<1>1. ReapInv /\ [Next]_vars =>
        [\A a \in stamped : ap[a] = "available" /\ ap'[a] = "deleted" => clock - born[a] > Grace]_vars
  <2>. SUFFICES ASSUME ReapInv, Next, NEW a \in stamped, ap[a] = "available", ap'[a] = "deleted"
                PROVE  clock - born[a] > Grace
    BY DEF vars
  <2>1. /\ ap \in [AccessPoint -> ApStates] /\ a \in AccessPoint
        /\ clock \in Nat /\ now \in Nat /\ born[a] \in Nat /\ now <= clock
    BY ClockAssumption DEF ReapInv, TypeOK, WorkspaceType, QueueIsOld
  <2>2. CASE DeleteAccessPoint
    <3>1. a = current /\ pc = "deleteAP" /\ current # None
      BY <2>1, <2>2 DEF DeleteAccessPoint, ReapInv, TypeOK
    <3>2. now - born[a] > Grace
      BY <3>1 DEF ReapInv, QueueIsOld, Settled, Removing
    <3>. QED BY <2>1, <3>2, GraceAssumption
  <2>3. CASE Environment
    BY <2>1, <2>3 DEF Environment, Tick, Place, Launch, TaskStarts, WriteFile, TaskToldToStop,
                      TaskStops, efsVars
  <2>4. CASE Reap /\ ~DeleteAccessPoint
    BY <2>4 DEF Reap, StartRun, ListAccessPoints, ListAllRunningTasks, ListAllTaskDefinitions,
                ListTasksByInvestigation, WalkDirectory, UploadFile, RemoveTree,
                DeleteTaskDefinitions,
                workspaceVars, efsVars
  <2>5. CASE RunTimesOut
    BY <2>5 DEF RunTimesOut, workspaceVars, efsVars
  <2>. QED BY <2>2, <2>3, <2>4, <2>5 DEF Next
<1>. QED BY <1>1, ReapInvariant, PTL DEF Spec, GraceHonoured
-----------------------------------------------------------------------------
(* A run ends by itself.  Its calls have an order: the listings, then an access point leaves   *)
(* the queue, or the current one comes to a later stage, or a file of it is uploaded.  There   *)
(* are finitely many access points, stages and files, and so is the order.                    *)

Stage(s) ==
  CASE s = "listAccessPoints" -> 1 [] s = "listTasks" -> 2 [] s = "listDefinitions" -> 3
    [] s = "refresh" -> 4 [] s = "walk" -> 5 [] s = "upload" -> 6 [] s = "rmtree" -> 7
    [] s = "deleteAP" -> 8 [] s = "deregister" -> 9 [] OTHER -> 0

Smaller(S, T) == S \subseteq T /\ S # T

\* The run is over, or strictly further in that order.
Nearer ==
  \/ pc' = "idle"
  \/ Stage(pc) <= 3 /\ Stage(pc) < Stage(pc')
  \/ /\ Stage(pc) > 3 /\ Stage(pc') > 3
     /\ \/ Smaller(queue', queue)
        \/ queue' = queue /\ Stage(pc) < Stage(pc')
        \/ queue' = queue /\ pc' = pc /\ Smaller(walked', walked)

RunMovesOn ==
  [][pc # "idle" => IF Reap \/ RunTimesOut THEN Nearer ELSE UNCHANGED <<pc, queue, walked>>]_vars

LEMMA LeavingIsNearer ==
  ASSUME NEW a \in queue, Leave(a), pc \in Settled
  PROVE  Nearer
<1>1. CASE queue = {a}
  BY <1>1 DEF Leave, EndRun, Nearer
<1>2. CASE queue # {a}
  <2>1. pc' = "refresh" /\ Smaller(queue', queue)
    BY <1>2 DEF Leave, Smaller
  <2>2. Stage(pc) > 3
    BY DEF Stage, Settled, Removing
  <2>3. Stage(pc') > 3
    BY <2>1 DEF Stage
  <2>. QED BY <2>1, <2>2, <2>3 DEF Nearer
<1>. QED BY <1>1, <1>2

LEMMA RunComesNearer ==
  ASSUME TypeOK, QueueIsOld, pc # "idle", Reap \/ RunTimesOut
  PROVE  Nearer
<1>1. CASE RunTimesOut
  BY <1>1 DEF RunTimesOut, EndRun, Nearer
<1>2. CASE ListAccessPoints \/ ListAllRunningTasks \/ ListAllTaskDefinitions
  BY <1>2 DEF ListAccessPoints, ListAllRunningTasks, ListAllTaskDefinitions, EndRun, Nearer, Stage
<1>3. CASE ListTasksByInvestigation
  <2>1. PICK a \in queue : Leave(a) \/ (pc' = "walk" /\ queue' = queue)
    BY <1>3 DEF ListTasksByInvestigation
  <2>2. pc = "refresh"
    BY <1>3 DEF ListTasksByInvestigation
  <2>3. CASE pc' = "walk" /\ queue' = queue
    BY <2>2, <2>3 DEF Nearer, Stage
  <2>. QED BY <2>1, <2>2, <2>3, LeavingIsNearer DEF Settled
<1>4. CASE WalkDirectory \/ RemoveTree \/ DeleteAccessPoint
  BY <1>4 DEF WalkDirectory, RemoveTree, DeleteAccessPoint, Nearer, Stage
<1>5. CASE UploadFile
  <2>1. pc = "upload" /\ queue' = queue
    BY <1>5 DEF UploadFile
  <2>2. pc' \in {"rmtree", "deregister"} \/ (pc' = "upload" /\ Smaller(walked', walked))
    BY <1>5 DEF UploadFile, Smaller
  <2>. QED BY <2>1, <2>2 DEF Nearer, Stage
<1>6. CASE DeleteTaskDefinitions
  <2>1. pc = "deregister" /\ Leave(current)
    BY <1>6 DEF DeleteTaskDefinitions
  <2>2. current \in queue
    BY <2>1 DEF TypeOK, QueueIsOld
  <2>. QED BY <2>1, <2>2, LeavingIsNearer DEF Settled
<1>. QED BY <1>1, <1>2, <1>3, <1>4, <1>5, <1>6 DEF Reap, StartRun

\* No run goes on for ever, whatever is launched, written and stopped beside it: with each call of
\* its own it is over or nearer its end, and nobody else sets it back (handler.py 129-289).
THEOREM RunsEnd == Spec => RunMovesOn
<1>1. ReapInv /\ [Next]_vars =>
        [pc # "idle" =>
           IF Reap \/ RunTimesOut THEN Nearer ELSE UNCHANGED <<pc, queue, walked>>]_vars
  BY RunComesNearer DEF ReapInv, Next, Environment, reaperVars
<1>. QED BY <1>1, ReapInvariant, PTL DEF Spec, RunMovesOn

=============================================================================
