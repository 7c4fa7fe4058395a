------------------------------ MODULE ReapTasks ------------------------------
(***************************************************************************)
(* The reap-tasks Lambda (lambda/reap-tasks/handler.py): on a schedule, it *)
(* lists the tasks ECS is to keep running, describes them batch by batch,  *)
(* and stops those whose deadline has passed, unless an ECS Exec session   *)
(* is active, or may be.                                                   *)
(*                                                                         *)
(* Every action of a run is ONE call to AWS, with the code that follows it *)
(* up to the next call.  Tasks start, stop, and get sessions in between.   *)
(* Runs may overlap: the schedule may be as short as a minute, and a run   *)
(* takes up to two.  Failures of calls are drawn from a budget, so that    *)
(* liveness can be stated.                                                 *)
(***************************************************************************)
EXTENDS Naturals, FiniteSets

CONSTANTS Run,          \* concurrent runs of the Lambda
          Task,         \* ECS tasks, all of them launched already
          Container,    \* the containers of a task: rosa-boundary and kube-proxy
          BatchSize,    \* tasks to a describe_tasks call: 100 in the code
          MaxClock,     \* bound: the clock stops there
          FaultBudget,  \* bound: calls that fail
          NoDeadline,   \* no deadline tag, or one that fromisoformat refuses
          None          \* no task

ASSUME TaskAssumption == IsFiniteSet(Task)
ASSUME BatchAssumption == BatchSize \in Nat \ {0}
ASSUME BoundsAssumption == MaxClock \in Nat /\ FaultBudget \in Nat
ASSUME MarkersAssumption ==
  NoDeadline \notin Nat /\ None \notin Task

VARIABLES
  (* ECS and SSM *)
  clock,
  deadline,   \* the deadline tag of a task
  exec,       \* enableExecuteCommand as describe_tasks gives it: "yes", "no" or "unknown"
  wanted,     \* tasks with desiredStatus RUNNING
  box,        \* state of each container of a task
  sessions,   \* <<task, container>> with an active session
  (* a run of the reaper *)
  pc,
  now,        \* the time at which the run began
  todo,       \* listed tasks that are not described yet
  due,        \* described tasks past their deadline, still to be dealt with: each with its
              \* containers as describe_tasks returned them
  current,    \* the one of them being dealt with
  cleared,    \* its containers that SSM has no session for
  counts,     \* the report
  (* history *)
  listed,     \* tasks that the run has listed
  late,       \* <<run, task, container>>: a session that began after the run had ruled it out
  faults      \* calls that have failed

ecsVars == <<clock, deadline, exec, wanted, box, sessions>>
runVars == <<pc, now, todo, due, current, cleared, counts, listed>>
vars == <<ecsVars, runVars, late, faults>>

Stages == {"idle", "list", "describe", "check", "stop", "failed"}
\* A container has no address for ECS Exec before its runtimeId is known.
Boxes == {"pending", "unaddressed", "running", "stopped"}
Outcomes == {"stopped", "skipped", "protected", "errors"}
NoCounts == [o \in Outcomes |-> 0]
Nothing == [t \in {} |-> NoCounts]

EcsType ==
  /\ clock \in 0..MaxClock
  /\ deadline \in [Task -> Nat \cup {NoDeadline}]
  /\ exec \in [Task -> {"yes", "no", "unknown"}]
  /\ wanted \in SUBSET Task
  /\ box \in [Task -> [Container -> Boxes]]
  /\ sessions \in SUBSET (Task \X Container)

RunType ==
  /\ pc \in [Run -> Stages]
  /\ now \in [Run -> 0..MaxClock]
  /\ todo \in [Run -> SUBSET Task]
  /\ due \in [Run -> UNION {[D -> [Container -> Boxes]] : D \in SUBSET Task}]
  /\ current \in [Run -> Task \cup {None}]
  /\ cleared \in [Run -> SUBSET Container]
  /\ counts \in [Run -> [Outcomes -> Nat]]
  /\ \A r \in Run : pc[r] \in {"check", "stop"} => current[r] \in DOMAIN due[r]
  /\ listed \in [Run -> SUBSET Task]

TypeOK == EcsType /\ RunType /\ late \in SUBSET (Run \X Task \X Container) /\ faults \in 0..FaultBudget

Init ==
  /\ clock = 0
  /\ deadline \in [Task -> 0..MaxClock \cup {NoDeadline}]
  /\ exec \in [Task -> {"yes", "no", "unknown"}]
  /\ wanted = Task
  /\ box = [t \in Task |-> [c \in Container |-> "pending"]]
  /\ sessions = {}
  /\ pc = [r \in Run |-> "idle"]
  /\ now = [r \in Run |-> 0]
  /\ todo = [r \in Run |-> {}]
  /\ due = [r \in Run |-> Nothing]
  /\ current = [r \in Run |-> None]
  /\ cleared = [r \in Run |-> {}]
  /\ counts = [r \in Run |-> NoCounts]
  /\ listed = [r \in Run |-> {}]
  /\ late = {}
  /\ faults = 0

-----------------------------------------------------------------------------
(* The run. *)

Goto(r, stage) == pc' = [pc EXCEPT ![r] = stage]
Count(r, outcome, n) == counts' = [counts EXCEPT ![r][outcome] = @ + n]
NoFault == UNCHANGED faults
Fault == faults < FaultBudget /\ faults' = faults + 1

\* now > deadline, for a deadline that can be read
Expired(t, time) == deadline[t] \in Nat /\ time > deadline[t]

\* lastStatus RUNNING
Up(b) == b \in {"unaddressed", "running"}

\* Of the tasks left in the batch, take one up; then the next batch, or the report.
TakeUp(r, rest, later) ==
  /\ due' = [due EXCEPT ![r] = rest]
  /\ cleared' = [cleared EXCEPT ![r] = {}]
  /\ IF rest = Nothing
       THEN /\ Goto(r, IF later = {} THEN "idle" ELSE "describe")
            /\ current' = [current EXCEPT ![r] = None]
       ELSE \E t \in DOMAIN rest :
              /\ Goto(r, IF exec[t] = "no" THEN "stop" ELSE "check")
              /\ current' = [current EXCEPT ![r] = t]

\* The current task is dealt with.
Done(r) == TakeUp(r, [t \in DOMAIN due[r] \ {current[r]} |-> due[r][t]], todo[r])

\* Fault: the time is taken once, when the module is imported.
MutStartRun(r) ==
  /\ pc[r] \in {"idle", "failed"}
  /\ Goto(r, "list")
  /\ counts' = [counts EXCEPT ![r] = NoCounts]
  /\ listed' = [listed EXCEPT ![r] = {}]
  /\ todo' = [todo EXCEPT ![r] = {}]
  /\ due' = [due EXCEPT ![r] = Nothing]
  /\ current' = [current EXCEPT ![r] = None]
  /\ cleared' = [cleared EXCEPT ![r] = {}]
  /\ UNCHANGED <<ecsVars, now, late, faults>>

StartRun(r) ==
  /\ pc[r] \in {"idle", "failed"}
  /\ Goto(r, "list")
  /\ now' = [now EXCEPT ![r] = clock]
  /\ counts' = [counts EXCEPT ![r] = NoCounts]
  /\ listed' = [listed EXCEPT ![r] = {}]
  /\ todo' = [todo EXCEPT ![r] = {}]
  /\ due' = [due EXCEPT ![r] = Nothing]
  /\ current' = [current EXCEPT ![r] = None]
  /\ cleared' = [cleared EXCEPT ![r] = {}]
  /\ UNCHANGED <<ecsVars, late, faults>>

ListRunningTasks(r) ==
  /\ pc[r] = "list"
  /\ \/ /\ todo' = [todo EXCEPT ![r] = wanted]
        /\ listed' = [listed EXCEPT ![r] = wanted]
        /\ Goto(r, IF wanted = {} THEN "idle" ELSE "describe")
        /\ NoFault
     \/ /\ Fault
        /\ Goto(r, "failed")
        /\ UNCHANGED <<todo, listed>>
  /\ UNCHANGED <<ecsVars, now, due, current, cleared, counts, late>>

\* What describe_tasks is asked for: BatchSize tasks, or those that are left.
Batches(r) ==
  {b \in SUBSET todo[r] : \/ Cardinality(b) = BatchSize
                          \/ b = todo[r] /\ Cardinality(b) < BatchSize}

\* Fault: tasks that cannot be described are logged but not counted.
MutCountBatch(r, skipped, missing, unsure) ==
  counts' = [counts EXCEPT ![r].skipped = @ + Cardinality(skipped),
                           ![r].errors = @ + Cardinality(unsure)]

CountBatch(r, skipped, missing, unsure) ==
  counts' = [counts EXCEPT ![r].skipped = @ + Cardinality(skipped),
                           ![r].errors = @ + Cardinality(missing) + Cardinality(unsure)]

\* One batch: tasks that ECS has forgotten count as errors, tasks with no deadline, one
\* that cannot be read or one still to come are skipped, and of those past it a task whose
\* exec flag is unknown, or that has no running container to ask about, is an error: the
\* session check raises, and the task is left alone.  A failed call costs the whole batch.
DescribeBatch(r) ==
  /\ pc[r] = "describe"
  /\ \E batch \in Batches(r) :
       /\ todo' = [todo EXCEPT ![r] = @ \ batch]
       /\ \/ /\ NoFault
             /\ \E missing \in SUBSET (batch \ wanted) :
                  LET expired == {t \in batch \ missing : Expired(t, now[r])}
                      unsure == {t \in expired :
                                   \/ exec[t] = "unknown"
                                   \/ exec[t] = "yes" /\ \A c \in Container : ~Up(box[t][c])}
                  IN /\ CountBatch(r, (batch \ missing) \ expired, missing, unsure)
                     /\ TakeUp(r, [t \in expired \ unsure |-> box[t]], todo'[r])
          \/ /\ Fault
             /\ Count(r, "errors", Cardinality(batch))
             /\ TakeUp(r, Nothing, todo'[r])
  /\ late' = {s \in late : s[1] # r}
  /\ UNCHANGED <<ecsVars, now, listed>>

\* Fault: the first container without a session settles it.
MutAllAsked(r, asked) == asked # {}

\* Every container that was up has been asked about.
AllAsked(r, asked) == {c \in Container : Up(due[r][current[r]][c])} \subseteq asked

\* Ask SSM about one container that was up when the task was described.  A session protects
\* the task; a container without a runtimeId, or no answer, leaves it alone as an error;
\* when every container has been asked about, the task may be stopped.
HasActiveSsmSession(r) ==
  /\ pc[r] = "check"
  /\ \E c \in Container \ cleared[r] :
       LET t == current[r]
           container == due[r][t][c]
       IN \/ /\ container = "unaddressed"
             /\ NoFault
             /\ Count(r, "errors", 1)
             /\ Done(r)
          \/ /\ container = "running"
             /\ Fault
             /\ Count(r, "errors", 1)
             /\ Done(r)
          \/ /\ container = "running"
             /\ <<t, c>> \in sessions
             /\ NoFault
             /\ Count(r, "protected", 1)
             /\ Done(r)
          \/ /\ container = "running"
             /\ <<t, c>> \notin sessions
             /\ NoFault
             /\ cleared' = [cleared EXCEPT ![r] = @ \cup {c}]
             /\ Goto(r, IF AllAsked(r, cleared'[r]) THEN "stop" ELSE "check")
             /\ UNCHANGED <<counts, due, current>>
  /\ UNCHANGED <<ecsVars, now, todo, listed, late>>

\* Fault: the count does not wait for the answer.
MutStopTask(r) ==
  /\ pc[r] = "stop"
  /\ \/ wanted' = wanted \ {current[r]} /\ NoFault
     \/ UNCHANGED wanted /\ Fault
  /\ Count(r, "stopped", 1)
  /\ Done(r)
  /\ UNCHANGED <<clock, deadline, exec, box, sessions, now, todo, listed, late>>

\* ecs.stop_task.  A failed call may have stopped the task; it is an error all the same.
StopTask(r) ==
  /\ pc[r] = "stop"
  /\ \/ /\ wanted' = wanted \ {current[r]}
        /\ Count(r, "stopped", 1)
        /\ NoFault
     \/ /\ Fault
        /\ wanted' = wanted \ {current[r]} \/ UNCHANGED wanted
        /\ Count(r, "errors", 1)
  /\ Done(r)
  /\ UNCHANGED <<clock, deadline, exec, box, sessions, now, todo, listed, late>>

\* The Lambda reaches its own timeout (120 seconds).
RunTimesOut(r) ==
  /\ pc[r] \notin {"idle", "failed"}
  /\ Fault
  /\ Goto(r, "failed")
  /\ UNCHANGED <<ecsVars, now, todo, due, current, cleared, counts, listed, late>>

Reap(r) ==
  \/ StartRun(r) \/ ListRunningTasks(r) \/ DescribeBatch(r)
  \/ HasActiveSsmSession(r) \/ StopTask(r)

-----------------------------------------------------------------------------
(* ECS, and the operators. *)

Tick ==
  /\ clock < MaxClock
  /\ clock' = clock + 1
  /\ UNCHANGED <<deadline, exec, wanted, box, sessions, runVars, late, faults>>

\* The container starts, and then its runtimeId is known.
ContainerStarts(t, c) ==
  /\ t \in wanted
  /\ box[t][c] \in {"pending", "unaddressed"}
  /\ box' = [box EXCEPT ![t][c] = IF @ = "pending" THEN "unaddressed" ELSE "running"]
  /\ UNCHANGED <<clock, deadline, exec, wanted, sessions, runVars, late, faults>>

\* Every container is essential: when one stops, the task is to stop.
ContainerStops(t, c) ==
  /\ Up(box[t][c]) \/ t \notin wanted
  /\ box[t][c] # "stopped"
  /\ box' = [box EXCEPT ![t][c] = "stopped"]
  /\ wanted' = wanted \ {t}
  /\ sessions' = sessions \ {<<t, c>>}
  /\ late' = {s \in late : s[2] # t \/ s[3] # c}
  /\ UNCHANGED <<clock, deadline, exec, runVars, faults>>

\* An operator, or another Lambda, stops the task.
TaskToldToStop(t) ==
  /\ t \in wanted
  /\ wanted' = wanted \ {t}
  /\ UNCHANGED <<clock, deadline, exec, box, sessions, runVars, late, faults>>

\* The run will not ask about this container any more.
RuledOut(r, t, c) ==
  /\ t \in DOMAIN due[r]
  /\ ~Up(due[r][t][c]) \/ (t = current[r] /\ c \in cleared[r])

\* ecs execute-command
OpenSession(t, c) ==
  /\ exec[t] # "no"
  /\ t \in wanted
  /\ box[t][c] = "running"
  /\ <<t, c>> \notin sessions
  /\ sessions' = sessions \cup {<<t, c>>}
  /\ late' = late \cup {<<r, t, c>> : r \in {q \in Run : RuledOut(q, t, c)}}
  /\ UNCHANGED <<clock, deadline, exec, wanted, box, runVars, faults>>

CloseSession(t, c) ==
  /\ <<t, c>> \in sessions
  /\ sessions' = sessions \ {<<t, c>>}
  /\ late' = {s \in late : s[2] # t \/ s[3] # c}
  /\ UNCHANGED <<clock, deadline, exec, wanted, box, runVars, faults>>

Environment ==
  \/ Tick
  \/ \E t \in Task : TaskToldToStop(t)
  \/ \E t \in Task, c \in Container :
       \/ ContainerStarts(t, c) \/ ContainerStops(t, c)
       \/ OpenSession(t, c) \/ CloseSession(t, c)

Next ==
  \/ \E r \in Run : Reap(r) \/ RunTimesOut(r)
  \/ Environment

Spec == Init /\ [][Next]_vars

\* EventBridge starts a run on every period and Lambda carries it on; ECS starts the
\* containers of the tasks it is to run.  Nothing is assumed of sessions or of stopping.
FairSpec ==
  /\ Spec
  /\ \A r \in Run : WF_vars(Reap(r))
  /\ \A t \in Task, c \in Container : WF_vars(ContainerStarts(t, c))

-----------------------------------------------------------------------------
(* Safety. *)

\* r issues stop_task for t.
Stops(r, t) == pc[r] = "stop" /\ current[r] = t /\ due'[r] # due[r]

\* The reaper cuts nobody off that it could have known of: a task that it stops is past its
\* deadline, its exec capability was known, and each session on it began after the run had
\* asked about that container, or had seen that it was not up (handler.py 132-156, 246-323).
StopIsJustified ==
  [][\A r \in Run, t \in Task :
       Stops(r, t) =>
         /\ Expired(t, clock)
         /\ exec[t] # "unknown"
         /\ \A c \in Container : <<t, c>> \in sessions => <<r, t, c>> \in late]_vars

Total(r) == counts[r].stopped + counts[r].skipped + counts[r].protected + counts[r].errors

\* The report accounts for every listed task exactly once, whatever fails on the way
\* (handler.py 72-76, 105-182): what is not counted yet is still in the queue.
EveryTaskAccountedFor ==
  \A r \in Run :
     pc[r] \notin {"list", "failed"} =>
        Total(r) + Cardinality(DOMAIN due[r]) + Cardinality(todo[r]) = Cardinality(listed[r])

\* A report with no error and nothing protected can be relied on: every listed task that
\* was past its deadline when the run began is on its way out.
CleanReportIsTrue ==
  \A r \in Run :
     pc[r] = "idle" /\ counts[r].errors = 0 /\ counts[r].protected = 0 =>
        \A t \in listed[r] \cap wanted : ~Expired(t, now[r])

(* Liveness. *)

\* A task past its deadline is stopped, or somebody is in it, although each run fails
\* closed on whatever it is not sure of.  A task without an exec flag is left for ever.
ExpiredTaskStops ==
  \A t \in Task :
     t \in wanted /\ Expired(t, clock) /\ exec[t] # "unknown"
       ~> t \notin wanted \/ \E c \in Container : <<t, c>> \in sessions
=============================================================================
