------------------------------- MODULE EcsTask -------------------------------
(***************************************************************************)
(* The tasks of one investigation as the commands see them through ECS,    *)
(* internal/aws/ecs.go, and what every command that works on a task does:  *)
(* it describes it, waits for it and for its exec agent, and opens a       *)
(* session.  The commands are in OcmCredentials and TaskCommands.          *)
(*                                                                         *)
(* Each call may fail.  A task starts, is told to stop by anyone at any    *)
(* time, and stops; a stopped task never comes back.  ECS reports a task   *)
(* that is draining as running, or as on its way to be stopped.            *)
(***************************************************************************)
EXTENDS Naturals

CONSTANTS Process,
          Task,
          Line,     \* the command lines that are run
          None

\* A command line; task is its argument.
CommandLine ==
  [cmd : {"start-task", "create-investigation", "join-task", "stop-task", "configure", "clear"},
   task : Task \cup {None},
   ocm : BOOLEAN,      \* --with-credentials ocm
   connect : BOOLEAN,  \* --connect
   noWait : BOOLEAN,   \* --no-wait, not --wait of stop-task
   device : BOOLEAN]   \* the flow of the OCM login

\* validateStartCredentials: credentials need a task that has started.  The flag is start-task's.
ValidStartCredentials(l) == l.ocm => l.cmd = "start-task" /\ ~l.noWait

ASSUME LineAssumption ==
  /\ None \notin Task \cup Process
  /\ Line \subseteq {l \in CommandLine : ValidStartCredentials(l)}
  /\ \A l \in Line : l.task = None <=> l.cmd \in {"start-task", "create-investigation"}

\* What stands for no answer or a failed one is no process.
ASSUME AnswerAssumption == {"none", "error"} \cap Process = {}

VARIABLES
  task,    \* what has become of it; "none" before it is launched, "draining" once told to stop
  agent,   \* tasks whose exec agent is up
  config,  \* the OCM configuration in each task: of the process that installed it, or of an earlier one
  session, \* the transfer session of each process
  port,    \* the process that listens on the OCM callback port
  proc     \* the command of each process

vars == <<task, agent, config, session, port, proc>>

Stages ==
  {"idle", "lambda", "answered", "role", "wait", "prepare", "agent", "acquire", "await",
   "exec", "plugin", "read", "drain", "summary", "describe", "waitRunning", "stop",
   "waitStopped", "done", "failed", "killed"}

ProcessState ==
  [pc : Stages, line : Line \cup {None}, task : Task \cup {None},
   goal : {"credentials", "shell"},  \* what the session is for
   told : BOOLEAN,                   \* the task ID has been printed
   tab : BOOLEAN,                    \* a browser tab with its OCM login is open
   answer : {"none", "error"} \cup Process,  \* the result: the tab whose code was exchanged
   calls : SUBSET SUBSET Task,       \* invocations of the Lambda at work for p: the tasks each has found
   \* history
   lost : SUBSET Task,      \* tasks launched for p in an answer that was lost, by the only invocation then
   installed : BOOLEAN]     \* its helper has installed its request, or has cleared

Unstarted ==
  [pc |-> "idle", line |-> None, task |-> None, goal |-> "shell", told |-> FALSE,
   tab |-> FALSE, answer |-> "none", calls |-> {}, lost |-> {}, installed |-> FALSE]

Set(p, r) == proc' = [proc EXCEPT ![p] = r]
Goto(p, stage) == Set(p, [proc[p] EXCEPT !.pc = stage])

\* The command returns an error.
Fail(p) == Goto(p, "failed")

Running(p) == proc[p].pc \notin {"idle", "done", "failed", "killed"}

-----------------------------------------------------------------------------
(* ECS. *)

Up(t) == task[t] \in {"running", "draining"}

\* The container runs; a moment later its exec agent does.
Place(t) ==
  /\ task[t] = "pending"
  /\ task' = [task EXCEPT ![t] = "running"]
  /\ UNCHANGED <<agent, config, session, port, proc>>

Register(t) ==
  /\ Up(t) /\ t \notin agent
  /\ agent' = agent \cup {t}
  /\ UNCHANGED <<task, config, session, port, proc>>

Told(f, t) ==
  [f EXCEPT ![t] = CASE @ = "pending" -> "stopped" [] @ = "running" -> "draining" [] OTHER -> @]

\* The reaper, another user, or close-investigation.
StopByOthers(t) ==
  /\ task[t] \in {"pending", "running"}
  /\ task' = Told(task, t)
  /\ UNCHANGED <<agent, config, session, port, proc>>

\* The helper is no more, nor what it was about to do: what its clear came to is known at its end only.
Over(s) ==
  [s EXCEPT !.helper = "ended", !.matched = {}, !.ready = {}, !.kept = @ /\ s.helper \in {"installed", "ended"}]

\* The container ends, and with it its agent, its sessions and its task-scoped files.
Exit(t) ==
  /\ Up(t)
  /\ task' = [task EXCEPT ![t] = "stopped"]
  /\ agent' = agent \ {t}
  /\ config' = [config EXCEPT ![t] = None]
  /\ session' = [p \in Process |->
       IF proc[p].task = t /\ session[p].helper # "none"
       THEN Over(session[p]) ELSE session[p]]
  /\ UNCHANGED <<port, proc>>

-----------------------------------------------------------------------------
(* What the commands share. *)

\* WaitForRunning, up to ten minutes: the task has stopped or is late.
WaitForRunning(p, success, failure) ==
  /\ \/ Up(proc[p].task) /\ Goto(p, success)
     \/ Goto(p, failure)
  /\ UNCHANGED <<task, agent, config, session, port>>

\* Fault: an agent that has not registered will do so in time.
MutAgentRunning(t) == TRUE

\* isExecAgentRunning
AgentRunning(t) == t \in agent

\* WaitForExecAgent, up to 30 seconds.
WaitForExecAgent(p) ==
  /\ proc[p].pc = "agent"
  /\ \/ /\ AgentRunning(proc[p].task)
        /\ Goto(p, IF proc[p].goal = "credentials" /\ proc[p].line.cmd # "clear" THEN "acquire" ELSE "exec")
     \/ Fail(p)
  /\ UNCHANGED <<task, agent, config, session, port>>

\* ExecuteCommand.  The runtime ID of the container is looked up afterwards; without it the
\* plugin has no target and ends as soon as it is started.
OpenSession(p) ==
  /\ proc[p].pc = "exec"
  /\ \/ /\ Up(proc[p].task)
        /\ Goto(p, IF proc[p].goal = "credentials" THEN "plugin" ELSE "done")
     \/ Fail(p)
  /\ UNCHANGED <<task, agent, config, session, port>>

=============================================================================
