------------------------- MODULE CreateInvestigation -------------------------
(***************************************************************************)
(* The create-investigation Lambda (lambda/create-investigation/handler.py)*)
(* from the moment a request has been authorised: find or create the EFS   *)
(* access point, hand over from the tasks that already run, register a     *)
(* task definition, launch and tag the task, and roll back what failed.    *)
(*                                                                         *)
(* Several invocations may run at once.  AWS holds all of the state: every *)
(* action of an invocation is ONE call to AWS, and each call may succeed,  *)
(* be refused (botocore's ClientError: no effect) or be lost (a            *)
(* BotoCoreError such as a read timeout: the effect may or may not have    *)
(* happened).  The code treats the two kinds differently, so the model     *)
(* does too.  The Lambda may also be killed at its own timeout.            *)
(*                                                                         *)
(* An invocation creates at most one access point, one task definition and *)
(* one task, so each of these is named by the invocation that creates it.  *)
(***************************************************************************)
EXTENDS Naturals, FiniteSets

CONSTANTS Invocation,     \* invocations of the Lambda, and what each of them creates
          Investigation,  \* the (cluster_id, investigation_id) pairs
          None            \* no access point: Python's None

ASSUME NoneAssumption == None \notin Invocation

VARIABLES
  (* the Lambda *)
  request,      \* the event: its investigation and skip_task
  pc,           \* the next AWS call of an invocation, or the response it gave
  found,        \* existing_ap
  listed,       \* existing_tasks
  checked,      \* listed tasks that passed the session preflight
  waitFor,      \* tasks_to_wait_for
  failed,       \* failed_stops
  home,         \* access_point_id
  rollbacks,    \* rounds of rollback left: a tagging failure is rolled back twice
  excused,      \* history: a call was lost, or a clean-up call failed
  (* AWS *)
  ap,           \* LifeCycleState of the access point an invocation creates
  task,         \* status of the ECS task an invocation launches
  td,           \* status of the task definition an invocation registers
  sessions,     \* tasks with an active SSM session
  openedAfter   \* history: handovers whose preflight had passed a task when its session began

handoverVars == <<listed, checked, waitFor, failed>>
rollbackVars == <<rollbacks, excused>>
lambdaVars == <<request, pc, found, handoverVars, home, rollbackVars>>
awsVars == <<ap, task, td, sessions, openedAfter>>
vars == <<lambdaVars, awsVars>>

Calls == {"findAP", "listTasks", "preflight", "stopTasks", "wait", "ensureAP", "register",
          "runTask", "tag", "deregister", "stopOwn", "deleteAP"}
\* 200, the 409 of a locked investigation, any 500, and a Lambda killed before it answered
Responses == {"ok", "conflict", "error", "killed"}
Stages == {"idle"} \cup Calls \cup Responses

Workspaces == {"none", "creating", "available", "deleted"}
Statuses == {"none", "starting", "running", "aborting", "stopping", "stopped"}
Definitions == {"none", "active", "inactive"}

HandoverType ==
  /\ listed \in [Invocation -> SUBSET Invocation]
  /\ checked \in [Invocation -> SUBSET Invocation]
  /\ waitFor \in [Invocation -> SUBSET Invocation]
  /\ failed \in [Invocation -> SUBSET Invocation]

LambdaType ==
  /\ request \in [Invocation -> [inv : Investigation, skip : BOOLEAN]]
  /\ pc \in [Invocation -> Stages]
  /\ found \in [Invocation -> Invocation \cup {None}]
  /\ home \in [Invocation -> Invocation \cup {None}]

RollbackType ==
  /\ rollbacks \in [Invocation -> 0..2]
  /\ excused \in [Invocation -> BOOLEAN]

AwsType ==
  /\ ap \in [Invocation -> Workspaces]
  /\ task \in [Invocation -> Statuses]
  /\ td \in [Invocation -> Definitions]
  /\ sessions \in SUBSET Invocation
  /\ openedAfter \in [Invocation -> SUBSET Invocation]

TypeOK == HandoverType /\ LambdaType /\ RollbackType /\ AwsType

Init ==
  /\ request \in [Invocation -> [inv : Investigation, skip : BOOLEAN]]
  /\ pc = [i \in Invocation |-> "idle"]
  /\ found = [i \in Invocation |-> None]
  /\ listed = [i \in Invocation |-> {}]
  /\ checked = [i \in Invocation |-> {}]
  /\ waitFor = [i \in Invocation |-> {}]
  /\ failed = [i \in Invocation |-> {}]
  /\ home = [i \in Invocation |-> None]
  /\ rollbacks = [i \in Invocation |-> 0]
  /\ excused = [i \in Invocation |-> FALSE]
  /\ ap = [i \in Invocation |-> "none"]
  /\ task = [i \in Invocation |-> "none"]
  /\ td = [i \in Invocation |-> "none"]
  /\ sessions = {}
  /\ openedAfter = [i \in Invocation |-> {}]

-----------------------------------------------------------------------------
(* What the calls of the code see and do. *)

Target(i) == request[i].inv
Active(i) == pc[i] \in Calls
\* Fault: the rollback forgets whether the access point is new.
MutApNewlyCreated(i) == home[i] # None

ApNewlyCreated(i) == home[i] = i

\* desiredStatus = RUNNING: what list_tasks returns.  A task told to stop is no longer
\* listed, although its container may go on for the two minutes of its stopTimeout.
DesiredRunning(t) == task[t] \in {"starting", "running"}

TasksOf(v) == {t \in Invocation : Target(t) = v /\ DesiredRunning(t)}

\* The access points find_existing_access_point accepts: available, with the tags and the
\* path of the investigation.  One still in creation is passed over.
AvailableFor(v) == {a \in Invocation : Target(a) = v /\ ap[a] = "available"}

Goto(i, stage) == pc' = [pc EXCEPT ![i] = stage]

\* ecs.stop_task sets desiredStatus to STOPPED; repeating it changes nothing.  A container
\* that already runs gets a SIGTERM and its stopTimeout: "stopping".
StopTaskEffect(t) ==
  task' = [task EXCEPT ![t] = CASE @ = "running" -> "stopping"
                                [] @ = "starting" -> "aborting"
                                [] OTHER -> @]

-----------------------------------------------------------------------------
(* The invocation, in the order of create_investigation_task. *)

Begin(i) ==
  /\ pc[i] = "idle"
  /\ Goto(i, "findAP")
  /\ UNCHANGED <<request, found, handoverVars, home, rollbackVars, awsVars>>

\* A refused describe_access_points is caught and reads as "there is none"; a lost one is not.
FindExistingAccessPoint(i) ==
  /\ pc[i] = "findAP"
  /\ \/ /\ \/ \E a \in AvailableFor(Target(i)) : found' = [found EXCEPT ![i] = a]
           \/ found' = [found EXCEPT ![i] = None]
        /\ Goto(i, IF request[i].skip THEN "ensureAP" ELSE "listTasks")
     \/ /\ Goto(i, "error")
        /\ UNCHANGED found
  /\ UNCHANGED <<request, handoverVars, home, rollbackVars, awsVars>>

\* Fault: a refused list_tasks reads as "none runs", as a refused describe_access_points does.
MutFindRunningTasks(i) ==
  /\ pc[i] = "listTasks"
  /\ \/ /\ listed' = [listed EXCEPT ![i] = TasksOf(Target(i))]
        /\ Goto(i, IF TasksOf(Target(i)) = {} THEN "ensureAP" ELSE "preflight")
     \/ /\ Goto(i, "ensureAP")
        /\ UNCHANGED listed
  /\ UNCHANGED <<request, found, checked, waitFor, failed, home, rollbackVars, awsVars>>

FindRunningTasks(i) ==
  /\ pc[i] = "listTasks"
  /\ \/ /\ listed' = [listed EXCEPT ![i] = TasksOf(Target(i))]
        /\ Goto(i, IF TasksOf(Target(i)) = {} THEN "ensureAP" ELSE "preflight")
     \/ /\ Goto(i, "error")
        /\ UNCHANGED listed
  /\ UNCHANGED <<request, found, checked, waitFor, failed, home, rollbackVars, awsVars>>

\* Fault: the preflight ends at the first task that passes.
MutPreflightSessionCheck(i) ==
  /\ pc[i] = "preflight"
  /\ \E t \in listed[i] \ checked[i] :
       /\ t \notin sessions
       /\ checked' = [checked EXCEPT ![i] = @ \cup {t}]
  /\ Goto(i, "stopTasks")
  /\ UNCHANGED <<request, found, listed, waitFor, failed, home, rollbackVars, awsVars>>

\* Describe one listed task and ask SSM for the active sessions of its containers.  A
\* container without a runtimeId has no session.  No answer is an answer: 500.
PreflightSessionCheck(i) ==
  /\ pc[i] = "preflight"
  /\ \E t \in listed[i] \ checked[i] :
       \/ /\ t \notin sessions
          /\ checked' = [checked EXCEPT ![i] = @ \cup {t}]
          /\ Goto(i, IF listed[i] = checked[i] \cup {t} THEN "stopTasks" ELSE "preflight")
       \/ /\ t \in sessions
          /\ Goto(i, "conflict")
          /\ UNCHANGED checked
       \/ /\ Goto(i, "error")
          /\ UNCHANGED checked
  /\ UNCHANGED <<request, found, listed, waitFor, failed, home, rollbackVars, awsVars>>

\* Fault: each task is stopped as soon as it has passed its own check.
MutStopExistingTask(i) ==
  /\ pc[i] \in {"preflight", "stopTasks"}
  /\ \E t \in checked[i] \ (waitFor[i] \cup failed[i]) :
       /\ StopTaskEffect(t)
       /\ waitFor' = [waitFor EXCEPT ![i] = @ \cup {t}]
  /\ Goto(i, IF listed[i] = waitFor'[i] THEN "wait" ELSE pc[i])
  /\ UNCHANGED <<request, found, listed, checked, failed, home, rollbackVars,
                 ap, td, sessions, openedAfter>>

\* Fault: a stop that fails is tried again.
MutRetryStop(i) ==
  /\ pc[i] = "stopTasks"
  /\ \E t \in listed[i] \ waitFor[i] :
       \/ /\ StopTaskEffect(t)
          /\ waitFor' = [waitFor EXCEPT ![i] = @ \cup {t}]
       \/ /\ StopTaskEffect(t) \/ UNCHANGED task
          /\ UNCHANGED waitFor
  /\ Goto(i, IF listed[i] = waitFor'[i] THEN "wait" ELSE "stopTasks")
  /\ UNCHANGED <<request, found, listed, checked, failed, home, rollbackVars,
                 ap, td, sessions, openedAfter>>

\* One round of the stop loop.  A failure is noted and the loop goes on.
StopExistingTask(i) ==
  /\ pc[i] = "stopTasks"
  /\ \E t \in listed[i] \ (waitFor[i] \cup failed[i]) :
       \/ /\ StopTaskEffect(t)
          /\ waitFor' = [waitFor EXCEPT ![i] = @ \cup {t}]
          /\ UNCHANGED failed
       \/ /\ StopTaskEffect(t) \/ UNCHANGED task
          /\ failed' = [failed EXCEPT ![i] = @ \cup {t}]
          /\ UNCHANGED waitFor
  /\ Goto(i, IF listed[i] = waitFor'[i] \cup failed'[i] THEN "wait" ELSE "stopTasks")
  /\ UNCHANGED <<request, found, listed, checked, home, rollbackVars,
                 ap, td, sessions, openedAfter>>

\* Fault: a waiter that gives up is logged and the launch goes on.
MutWaitForTermination(i) ==
  /\ pc[i] = "wait"
  /\ Goto(i, IF failed[i] = {} THEN "ensureAP" ELSE "error")
  /\ UNCHANGED <<request, found, handoverVars, home, rollbackVars, awsVars>>

\* Fault: the waiter has no MaxAttempts.
MutWaitForEver(i) ==
  /\ pc[i] = "wait"
  /\ \A t \in waitFor[i] : task[t] = "stopped"
  /\ Goto(i, IF failed[i] = {} THEN "ensureAP" ELSE "error")
  /\ UNCHANGED <<request, found, handoverVars, home, rollbackVars, awsVars>>

\* The tasks_stopped waiter (25 polls, 6 seconds apart) sees every task stopped, or gives
\* up; then any failed stop fails the handover.
WaitForTermination(i) ==
  /\ pc[i] = "wait"
  /\ \/ /\ \A t \in waitFor[i] : task[t] = "stopped"
        /\ UNCHANGED failed
     \/ /\ waitFor[i] # {}
        /\ failed' = [failed EXCEPT ![i] = @ \cup waitFor[i]]
  /\ Goto(i, IF failed'[i] = {} THEN "ensureAP" ELSE "error")
  /\ UNCHANGED <<request, found, listed, checked, waitFor, home, rollbackVars, awsVars>>

\* Reuse the access point found at the start, or create one.  With skip_task that is all.
EnsureAccessPoint(i) ==
  /\ pc[i] = "ensureAP"
  /\ \/ /\ found[i] # None
        /\ home' = [home EXCEPT ![i] = found[i]]
        /\ Goto(i, IF request[i].skip THEN "ok" ELSE "register")
        /\ UNCHANGED <<ap, excused>>
     \/ /\ found[i] = None
        /\ \/ /\ ap' = [ap EXCEPT ![i] = "creating"]
              /\ home' = [home EXCEPT ![i] = i]
              /\ Goto(i, IF request[i].skip THEN "ok" ELSE "register")
              /\ UNCHANGED excused
           \/ /\ Goto(i, "error")                       \* refused
              /\ UNCHANGED <<ap, home, excused>>
           \/ /\ ap' = [ap EXCEPT ![i] = "creating"]    \* done, but the answer is lost
              /\ excused' = [excused EXCEPT ![i] = TRUE]
              /\ Goto(i, "error")
              /\ UNCHANGED home
  /\ UNCHANGED <<request, found, handoverVars, rollbacks, task, td, sessions, openedAfter>>

\* sts.get_caller_identity sits outside every try: its failure leaves a new access point.
GetCallerIdentityFails(i) ==
  /\ pc[i] = "register"
  /\ excused' = [excused EXCEPT ![i] = ApNewlyCreated(i)]
  /\ Goto(i, "error")
  /\ UNCHANGED <<request, found, handoverVars, home, rollbacks, awsVars>>

\* Any failure of the registration deletes an access point that is new, and only that.
RegisterTaskDefinition(i) ==
  /\ pc[i] = "register"
  /\ \/ /\ td' = [td EXCEPT ![i] = "active"]
        /\ Goto(i, "runTask")
        /\ UNCHANGED rollbackVars
     \/ /\ \/ UNCHANGED <<td, excused>>
           \/ /\ td' = [td EXCEPT ![i] = "active"]
              /\ excused' = [excused EXCEPT ![i] = TRUE]
        /\ Goto(i, IF ApNewlyCreated(i) THEN "deleteAP" ELSE "error")
        /\ rollbacks' = [rollbacks EXCEPT ![i] = 1]
  /\ UNCHANGED <<request, found, handoverVars, home, ap, task, sessions, openedAfter>>

\* A refusal, or an answer that lists failures, is rolled back; a lost call is not.
RunTask(i) ==
  /\ pc[i] = "runTask"
  /\ \/ /\ task' = [task EXCEPT ![i] = "starting"]
        /\ Goto(i, "tag")
        /\ UNCHANGED rollbackVars
     \/ /\ Goto(i, "deregister")
        /\ rollbacks' = [rollbacks EXCEPT ![i] = 1]
        /\ UNCHANGED <<task, excused>>
     \/ /\ task' = [task EXCEPT ![i] = "starting"] \/ UNCHANGED task
        /\ excused' = [excused EXCEPT ![i] = TRUE]
        /\ Goto(i, "error")
        /\ UNCHANGED rollbacks
  /\ UNCHANGED <<request, found, handoverVars, home, ap, td, sessions, openedAfter>>

\* A refusal is rolled back by the inner handler, which re-raises, and again by the outer
\* one; a lost call is not rolled back at all.
TagTask(i) ==
  /\ pc[i] = "tag"
  /\ \/ /\ Goto(i, "ok")
        /\ UNCHANGED rollbackVars
     \/ /\ Goto(i, "deregister")
        /\ rollbacks' = [rollbacks EXCEPT ![i] = 2]
        /\ UNCHANGED excused
     \/ /\ Goto(i, "error")
        /\ excused' = [excused EXCEPT ![i] = TRUE]
        /\ UNCHANGED rollbacks
  /\ UNCHANGED <<request, found, handoverVars, home, awsVars>>

-----------------------------------------------------------------------------
(* Rolling back.  A call that fails here is logged and the rollback goes on. *)

\* The last call of a round goes back to the first one while a round is left.
EndOfRound(i) ==
  /\ rollbacks' = [rollbacks EXCEPT ![i] = @ - 1]
  /\ Goto(i, IF rollbacks[i] > 1 THEN "deregister" ELSE "error")

DeregisterTaskDefinition(i) ==
  /\ pc[i] = "deregister"
  /\ \/ /\ td' = [td EXCEPT ![i] = "inactive"]
        /\ UNCHANGED excused
     \/ /\ excused' = [excused EXCEPT ![i] = @ \/ td[i] = "active"]
        /\ UNCHANGED td
  /\ Goto(i, "stopOwn")
  /\ UNCHANGED <<request, found, handoverVars, home, rollbacks, ap, task, sessions, openedAfter>>

\* Fault: a task that could not be tagged is left running.
MutStopOwnTask(i) ==
  /\ pc[i] = "stopOwn"
  /\ IF ApNewlyCreated(i)
       THEN Goto(i, "deleteAP") /\ UNCHANGED rollbacks
       ELSE EndOfRound(i)
  /\ UNCHANGED <<request, found, handoverVars, home, excused, awsVars>>

\* Only a task whose ARN came back is stopped; then an access point that is new goes too.
StopOwnTask(i) ==
  /\ pc[i] = "stopOwn"
  /\ \/ /\ task[i] = "none"
        /\ UNCHANGED <<task, excused>>
     \/ /\ task[i] # "none"
        /\ StopTaskEffect(i)
        /\ UNCHANGED excused
     \/ /\ task[i] # "none"
        /\ excused' = [excused EXCEPT ![i] = @ \/ DesiredRunning(i)]
        /\ UNCHANGED task
  /\ IF ApNewlyCreated(i)
       THEN Goto(i, "deleteAP") /\ UNCHANGED rollbacks
       ELSE EndOfRound(i)
  /\ UNCHANGED <<request, found, handoverVars, home, ap, td, sessions, openedAfter>>

DeleteNewAccessPoint(i) ==
  /\ pc[i] = "deleteAP"
  /\ \/ /\ ap' = [ap EXCEPT ![home[i]] = "deleted"]
        /\ UNCHANGED excused
     \/ /\ excused' = [excused EXCEPT ![i] = @ \/ ap[home[i]] # "deleted"]
        /\ UNCHANGED ap
  /\ EndOfRound(i)
  /\ UNCHANGED <<request, found, handoverVars, home, task, td, sessions, openedAfter>>

\* The Lambda reaches its own timeout (300 seconds) before it has answered.
LambdaTimesOut(i) ==
  /\ Active(i)
  /\ Goto(i, "killed")
  /\ UNCHANGED <<request, found, handoverVars, home, rollbackVars, awsVars>>

Invoke(i) ==
  \/ FindExistingAccessPoint(i) \/ FindRunningTasks(i)
  \/ PreflightSessionCheck(i) \/ StopExistingTask(i) \/ WaitForTermination(i)
  \/ EnsureAccessPoint(i) \/ GetCallerIdentityFails(i) \/ RegisterTaskDefinition(i)
  \/ RunTask(i) \/ TagTask(i)
  \/ DeregisterTaskDefinition(i) \/ StopOwnTask(i) \/ DeleteNewAccessPoint(i)

-----------------------------------------------------------------------------
(* AWS, and the other users of it. *)

AccessPointReady(a) ==
  /\ ap[a] = "creating"
  /\ ap' = [ap EXCEPT ![a] = "available"]
  /\ UNCHANGED <<lambdaVars, task, td, sessions, openedAfter>>

\* The container starts once its home volume can be mounted.
TaskStarts(t) ==
  /\ task[t] = "starting"
  /\ ap[home[t]] = "available"
  /\ task' = [task EXCEPT ![t] = "running"]
  /\ UNCHANGED <<lambdaVars, ap, td, sessions, openedAfter>>

\* The stop-task command, the task reaper, or the container itself ends the task.
TaskToldToStop(t) ==
  /\ DesiredRunning(t)
  /\ StopTaskEffect(t)
  /\ UNCHANGED <<lambdaVars, ap, td, sessions, openedAfter>>

TaskStops(t) ==
  /\ task[t] \in {"aborting", "stopping"}
  /\ task' = [task EXCEPT ![t] = "stopped"]
  /\ sessions' = sessions \ {t}
  /\ openedAfter' = [openedAfter EXCEPT ![t] = {}]
  /\ UNCHANGED <<lambdaVars, ap, td>>

\* ecs execute-command, by start-task --connect or join-task.
OpenSession(t) ==
  /\ task[t] = "running"
  /\ t \notin sessions
  /\ sessions' = sessions \cup {t}
  /\ openedAfter' = [openedAfter EXCEPT ![t] = {i \in Invocation : t \in checked[i] /\ pc[i] \in {"preflight", "stopTasks"}}]
  /\ UNCHANGED <<lambdaVars, ap, task, td>>

CloseSession(t) ==
  /\ t \in sessions
  /\ sessions' = sessions \ {t}
  /\ openedAfter' = [openedAfter EXCEPT ![t] = {}]
  /\ UNCHANGED <<lambdaVars, ap, task, td>>

Environment ==
  \E r \in Invocation :
    \/ AccessPointReady(r) \/ TaskStarts(r) \/ TaskToldToStop(r) \/ TaskStops(r)
    \/ OpenSession(r) \/ CloseSession(r)

Next ==
  \/ \E i \in Invocation : Begin(i) \/ Invoke(i) \/ LambdaTimesOut(i)
  \/ Environment

Spec == Init /\ [][Next]_vars

\* One operator at a time: a request arrives when no other is being served.  Lambda runs
\* what it has accepted, or kills it.  Nothing is assumed of ECS: a task that was told to
\* stop may take for ever to do so.
OneAtATime == \A i, j \in Invocation : Active(i) /\ Active(j) => i = j
SerialNext == Next /\ OneAtATime'
SerialSpec == Init /\ [][SerialNext]_vars
FairSerialSpec == SerialSpec /\ \A i \in Invocation : WF_vars(Invoke(i))

-----------------------------------------------------------------------------
(* Safety. *)

\* No operator is cut off by a handover that could have known: when the handover of i stops
\* a task with an open session, the session began after i had looked at that task.
\* (handler.py 691-739 before 741-752.)
HandoverSparesSessions ==
  [][\A i \in Invocation :
       \A t \in (waitFor'[i] \cup failed'[i]) \ (waitFor[i] \cup failed[i]) :
          t \in sessions => i \in openedAfter[t]]_vars

\* The 409 of a locked investigation has no effect on any of its tasks: no task is stopped
\* until all have passed ("before stopping any", handler.py 691).
ConflictStopsNothing ==
  \A i \in Invocation : pc[i] = "conflict" => waitFor[i] = {} /\ failed[i] = {}

\* From the end of the handover on, whatever the invocation goes through, each task it had
\* found running has stopped for good (handler.py 754-774).
HandoverIsComplete ==
  \A i \in Invocation :
     /\ pc[i] \in {"ensureAP", "register", "runTask", "tag", "ok",
                   "deregister", "stopOwn", "deleteAP"}
     => \A t \in listed[i] : task[t] = "stopped"

\* A request that fails leaves nothing of its own behind, unless a call was lost, the
\* caller identity was refused, or a clean-up call failed (handler.py 844-862, 908-1046).
FailureLeavesNothing ==
  \A i \in Invocation :
     pc[i] = "error" /\ ~excused[i] =>
        /\ ~DesiredRunning(i)
        /\ td[i] # "active"
        /\ ap[i] \notin {"creating", "available"}

\* An investigation outlives its tasks: the access point of a request that succeeded is
\* not deleted by the rollback of another one.  It needs requests that do not overlap: an
\* overlapping one may adopt an access point that its creator then rolls back.
WorkspaceSurvives ==
  \A i \in Invocation : pc[i] = "ok" => ap[home[i]] # "deleted"

\* Served one at a time, requests keep the promise of SingleTask: a request launches its
\* task only when the investigation wants no other one, and no stopped task comes back.
Promise == INSTANCE SingleTask
  WITH Task <- Invocation,
       wanted <- [v \in Investigation |-> TasksOf(v)],
       launched <- {t \in Invocation : task[t] # "none"}
OneTaskAtATime == Promise!Spec

\* "We fail closed if the stop action fails or the task doesn't terminate" (handler.py
\* 682-683): two containers never share the home directory of an investigation.
ContainersNeverOverlap ==
  \A t, u \in Invocation :
     t # u /\ Target(t) = Target(u) => ~(task[t] = "running" /\ task[u] \in {"running", "stopping"})

\* "If an access point already exists with matching ClusterID/InvestigationID tags, it is
\* reused" (docs/architecture/investigations-and-tasks.md): an investigation has one.
OneWorkspace ==
  \A a, b \in Invocation :
     a # b /\ Target(a) = Target(b) => ~(ap[a] = "available" /\ ap[b] = "available")

\* At most so many calls are still to come before the answer: one or two for each task that
\* is listed, one for each step of the launch, and three for each round of the rollback.
CallsLeft(i) ==
  LET toCheck == Cardinality(listed[i] \ checked[i])
      toStop == Cardinality(listed[i] \ (waitFor[i] \cup failed[i]))
  IN CASE pc[i] = "findAP"     -> 2 * Cardinality(Invocation) + 13
       [] pc[i] = "listTasks"  -> 2 * Cardinality(Invocation) + 12
       [] pc[i] = "preflight"  -> toCheck + Cardinality(listed[i]) + 11
       [] pc[i] = "stopTasks"  -> toStop + 11
       [] pc[i] = "wait"       -> 11
       [] pc[i] = "ensureAP"   -> 10
       [] pc[i] = "register"   -> 9
       [] pc[i] = "runTask"    -> 8
       [] pc[i] = "tag"        -> 7
       [] pc[i] = "deregister" -> 3 * rollbacks[i]
       [] pc[i] = "stopOwn"    -> 3 * rollbacks[i] - 1
       [] pc[i] = "deleteAP"   -> 3 * rollbacks[i] - 2
       [] OTHER                -> 0

\* A request cannot go on for ever, whatever fails and however often: every call uses up one
\* of those that are left, and nothing that others do adds to them.  A stop that has failed is
\* not tried again, and a rollback that fails does not begin another one (handler.py 741-752,
\* 951-1046).
CallsRunOut ==
  [][\A i \in Invocation :
       /\ Active(i) => CallsLeft(i)' <= CallsLeft(i)
       /\ Invoke(i) => CallsLeft(i)' \in 0 .. (CallsLeft(i) - 1)]_vars

\* Every request is answered, or killed, even if no old task ever stops.
EveryRequestAnswered ==
  \A i \in Invocation : Active(i) ~> pc[i] \in Responses

=============================================================================
